---- MODULE Spec2Model ----
(***************************************************************************)
(* Model of the weighted histogram engine (src/core): extraction, summary  *)
(* statistics, domain resolution, binning plan, classification and         *)
(* accumulation, bin building, and the computeHistogram orchestrator;      *)
(* of the convenience function histogram() and of the React hook           *)
(* useHistogram.                                                           *)
(*                                                                         *)
(* Numbers.  A JavaScript number is modelled as a pair <<n, d>>:           *)
(*   d > 0   the exact rational n/d in lowest terms,                       *)
(*   d = 0   a non-finite double: <<1,0>> = +Infinity, <<-1,0>> =          *)
(*           -Infinity, <<0,0>> = NaN,                                     *)
(*   d = -1  null / undefined (only <<0,-1>>).                             *)
(* Arithmetic on these pairs is exact, so the "within floating tolerance"  *)
(* of the text is equality here.  Where the rounding of IEEE doubles       *)
(* decides an outcome it is computed bit for bit, on the doubles nearest   *)
(* to the exact numbers: the quotient range / h whose ceiling is a bin     *)
(* count, and the classification of an observation (the width              *)
(* edges[1] - edges[0], the raw index and the test against                 *)
(* RIGHT_CLOSED_EPS).  A positive double is <<hi, lo, e>>, the 53-bit      *)
(* significand hi * 2^27 + lo times 2^e; a signed double puts the sign     *)
(* in front.  The irrational functions (sqrt, cbrt) are rounded down to a  *)
(* fixed decimal resolution.  The range of a double is kept: a sum or      *)
(* difference beyond the largest finite number MAX_VALUE is +-Infinity,    *)
(* and the operations propagate Infinity and NaN as IEEE arithmetic does.  *)
(***************************************************************************)
EXTENDS Integers, Sequences, FiniteSets, TLC

\* ------------------------------------------------------------------------
\* Numbers
\* ------------------------------------------------------------------------

NaN == <<0, 0>>
PosInf == <<1, 0>>
NegInf == <<-1, 0>>
Null == <<0, -1>>

AbsInt(a) == IF a < 0 THEN -a ELSE a

RECURSIVE Gcd(_, _)
Gcd(a, b) == IF b = 0 THEN a ELSE Gcd(b, a % b)

\* n/d in lowest terms, d # 0
Rat(n, d) ==
    LET s == IF d < 0 THEN -1 ELSE 1
        g == Gcd(AbsInt(n), AbsInt(d))
    IN  <<(s * n) \div g, (s * d) \div g>>

Num(n) == <<n, 1>>
Zero == <<0, 1>>
One == <<1, 1>>

\* Number.isFinite / isFinite on a number
IsFinite(a) == a[2] > 0
IsNull(a) == a[2] = -1

\* Number.MAX_VALUE: the largest finite number
MAX_VALUE == <<1000000000, 1>>

Neg(a) == <<-a[1], a[2]>>
Abs(a) == <<AbsInt(a[1]), a[2]>>

\* a < b; every comparison with NaN is false
Lt(a, b) ==
    IF a = NaN \/ b = NaN THEN FALSE
    ELSE IF ~IsFinite(a) \/ ~IsFinite(b)
    THEN (a = NegInf /\ b # NegInf) \/ (b = PosInf /\ a # PosInf)
    ELSE LET g == Gcd(a[2], b[2])
         IN  a[1] * (b[2] \div g) < b[1] * (a[2] \div g)

Le(a, b) == (a # NaN /\ a = b) \/ Lt(a, b)
Gt(a, b) == Lt(b, a)
Ge(a, b) == Le(b, a)

\* Math.max
Max(a, b) == IF a = NaN \/ b = NaN THEN NaN ELSE IF Lt(a, b) THEN b ELSE a

\* a finite result beyond the largest finite number is +-Infinity
Overflowed(r) ==
    LET q == AbsInt(r[1]) \div r[2]
    IN  IF q > MAX_VALUE[1] \/ (q = MAX_VALUE[1] /\ AbsInt(r[1]) % r[2] # 0)
        THEN (IF r[1] > 0 THEN PosInf ELSE NegInf)
        ELSE r

Add(a, b) ==
    IF a = NaN \/ b = NaN THEN NaN
    ELSE IF ~IsFinite(a) THEN (IF ~IsFinite(b) /\ b # a THEN NaN ELSE a)
    ELSE IF ~IsFinite(b) THEN b
    ELSE LET g == Gcd(a[2], b[2])
             la == b[2] \div g
             lb == a[2] \div g
         IN  Overflowed(Rat(a[1] * la + b[1] * lb, a[2] * la))

Sub(a, b) == Add(a, Neg(b))

\* products of the numbers used here stay below MAX_VALUE
Mul(a, b) ==
    IF a = NaN \/ b = NaN THEN NaN
    ELSE IF ~IsFinite(a) \/ ~IsFinite(b)
    THEN (IF a[1] = 0 \/ b[1] = 0 THEN NaN
          ELSE IF (a[1] > 0) = (b[1] > 0) THEN PosInf ELSE NegInf)
    ELSE LET g1 == Gcd(AbsInt(a[1]), b[2])
             g2 == Gcd(AbsInt(b[1]), a[2])
         IN  <<(a[1] \div g1) * (b[1] \div g2), (a[2] \div g2) * (b[2] \div g1)>>

\* a / b as JavaScript divides: x/0 is +-Infinity, 0/0 and Infinity/Infinity
\* are NaN, x/Infinity is 0
Div(a, b) ==
    IF a = NaN \/ b = NaN THEN NaN
    ELSE IF ~IsFinite(a) THEN (IF ~IsFinite(b) THEN NaN
                               ELSE IF b[1] < 0 THEN Neg(a) ELSE a)
    ELSE IF ~IsFinite(b) THEN Zero
    ELSE IF b[1] = 0
    THEN (IF a[1] = 0 THEN NaN ELSE IF a[1] > 0 THEN PosInf ELSE NegInf)
    ELSE LET s == IF b[1] < 0 THEN -1 ELSE 1
         IN  Mul(a, <<s * b[2], s * b[1]>>)

\* Math.floor / Math.ceil, as integers
Floor(a) == a[1] \div a[2]
Ceil(a) == -((-a[1]) \div a[2])

RECURSIVE RootSearch(_, _, _, _)
\* the largest r in lo..hi with r^p <= m (p = 2 or 3), by bisection
RootSearch(m, p, lo, hi) ==
    IF lo >= hi THEN lo
    ELSE LET mid == (lo + hi + 1) \div 2
             pw == IF p = 2 THEN mid * mid ELSE mid * mid * mid
         IN  IF pw <= m THEN RootSearch(m, p, mid, hi)
                        ELSE RootSearch(m, p, lo, mid - 1)

\* Math.sqrt of a finite a >= 0, rounded down to three decimals
Sqrt(a) ==
    LET m == (a[1] * 1000000) \div a[2]
    IN  Rat(RootSearch(m, 2, 0, 46000), 1000)

\* Math.cbrt of an integer n >= 1, rounded down to 1/100
Cbrt(n) == Rat(RootSearch(n * 1000000, 3, 0, 1200), 100)

RECURSIVE CeilLog2(_)
\* Math.ceil(Math.log2(n)) for an integer n >= 1
CeilLog2(n) == IF n <= 1 THEN 0 ELSE 1 + CeilLog2((n + 1) \div 2)

\* ------------------------------------------------------------------------
\* Quotients as IEEE doubles
\*
\* A bin count is Math.ceil of a quotient of doubles, and one unit in the last
\* place of the quotient decides it.  For these quotients a positive double is
\* kept bit for bit as <<hi, lo, e>>: the 53-bit significand hi * 2^27 + lo
\* (2^25 <= hi < 2^26, lo < 2^27) times 2^e.  An integer below 2^55 is the
\* pair <<hi, lo>> of its limbs, hi * 2^27 + lo.
\* ------------------------------------------------------------------------

LimbGe(x, y) == x[1] > y[1] \/ (x[1] = y[1] /\ x[2] >= y[2])

\* x - y for x >= y
LimbSub(x, y) ==
    IF x[2] >= y[2] THEN <<x[1] - y[1], x[2] - y[2]>>
    ELSE <<x[1] - y[1] - 1, x[2] + 134217728 - y[2]>>

LimbTwice(x) == <<2 * x[1] + (2 * x[2]) \div 134217728, (2 * x[2]) % 134217728>>

\* x * 2^n, for a result below 2^54
LimbShift(x, n) ==
    IF n >= 27 THEN <<x[2] * 2^(n - 27), 0>>
    ELSE <<x[1] * 2^n + x[2] \div 2^(27 - n), (x[2] % 2^(27 - n)) * 2^n>>

\* the number of bits of a limb n
BitLength(n) == CHOOSE k \in 0..27 : n < 2^k /\ (k = 0 \/ n >= 2^(k - 1))

LimbBits(x) == IF x[1] > 0 THEN 27 + BitLength(x[1]) ELSE BitLength(x[2])

RECURSIVE QuotientBits(_, _, _)
\* long division: the next n >= 1 bits of the quotient by b, from the
\* remainder r < b; the result is <<bits, remainder>>
QuotientBits(r, b, n) ==
    IF n = 1
    THEN (IF LimbGe(LimbTwice(r), b) THEN <<<<0, 1>>, LimbSub(LimbTwice(r), b)>>
          ELSE <<<<0, 0>>, LimbTwice(r)>>)
    ELSE LET first == QuotientBits(r, b, n \div 2)
             rest == QuotientBits(first[2], b, n - n \div 2)
             high == LimbShift(first[1], n - n \div 2)
         IN  <<<<high[1] + rest[1][1], high[2] + rest[1][2]>>, rest[2]>>

\* the significand sig with exponent e, renormalised when rounding carried
\* into bit 53
Renormalised(sig, e) ==
    IF sig[1] = 67108864 THEN <<33554432, 0, e + 1>> ELSE <<sig[1], sig[2], e>>

\* round to nearest, ties to even: half is the 53-bit significand, guard the
\* next bit, sticky whether any lower bit is set
RoundedDouble(half, guard, sticky, e) ==
    IF guard /\ (sticky \/ half[2] % 2 = 1)
    THEN Renormalised(IF half[2] + 1 = 134217728 THEN <<half[1] + 1, 0>>
                      ELSE <<half[1], half[2] + 1>>, e)
    ELSE <<half[1], half[2], e>>

\* q is <<bits, remainder>> with 54 quotient bits: 53 and the guard bit
RoundedQuotient(q, e) ==
    RoundedDouble(<<q[1][1] \div 2, (q[1][1] % 2) * 67108864 + q[1][2] \div 2>>,
                  q[1][2] % 2 = 1, q[2] # <<0, 0>>, e)

\* the quotient of a by b, b <= a < 2 * b: the leading 1 and 53 more bits
LeadingQuotient(q) == <<<<q[1][1] + 67108864, q[1][2]>>, q[2]>>

QuotientOfAligned(a, b, e) ==
    IF LimbGe(a, b) THEN RoundedQuotient(LeadingQuotient(QuotientBits(LimbSub(a, b), b, 53)), e - 52)
    ELSE RoundedQuotient(LeadingQuotient(QuotientBits(LimbSub(LimbTwice(a), b), b, 53)), e - 53)

\* the double nearest to (a / b) * 2^e, ties to even, for integers a, b > 0
\* below 2^53: a and b are first brought to the same number of bits
DoubleQuotient(a, b, e) ==
    IF LimbBits(a) <= LimbBits(b)
    THEN QuotientOfAligned(LimbShift(a, LimbBits(b) - LimbBits(a)), b, e - (LimbBits(b) - LimbBits(a)))
    ELSE QuotientOfAligned(a, LimbShift(b, LimbBits(a) - LimbBits(b)), e + (LimbBits(a) - LimbBits(b)))

\* the double nearest to a finite number a > 0
ToDouble(a) ==
    DoubleQuotient(<<a[1] \div 134217728, a[1] % 134217728>>,
                   <<a[2] \div 134217728, a[2] % 134217728>>, 0)

\* x / y on doubles
DivDouble(x, y) == DoubleQuotient(<<x[1], x[2]>>, <<y[1], y[2]>>, x[3] - y[3])

\* Math.ceil of a double x > 0, as an integer; 2^30 stands for every value
\* of 2^30 and above
CeilDouble(x) ==
    LET sh == -x[3]
    IN  IF sh < 23 THEN 1073741824
        ELSE IF sh >= 53 THEN 1
        ELSE IF sh >= 27
        THEN x[1] \div 2^(sh - 27)
                + (IF x[2] # 0 \/ x[1] % 2^(sh - 27) # 0 THEN 1 ELSE 0)
        ELSE x[1] * 2^(27 - sh) + x[2] \div 2^sh + (IF x[2] % 2^sh # 0 THEN 1 ELSE 0)

\* Math.floor of a double x > 0, as an integer; 2^30 stands for every value
\* of 2^30 and above
FloorDouble(x) ==
    IF -x[3] < 23 THEN 1073741824
    ELSE IF -x[3] >= 53 THEN 0
    ELSE IF -x[3] >= 27 THEN x[1] \div 2^(-x[3] - 27)
    ELSE x[1] * 2^(27 + x[3]) + x[2] \div 2^(-x[3])

\* Sums, differences and products of doubles are rounded from their exact
\* value, a natural number beyond 2^31 times a power of two.  Such a number
\* is a sequence of 27-bit limbs, least significant first.

RECURSIVE BigSum(_, _, _)
\* a + b + carry
BigSum(a, b, carry) ==
    IF a = <<>> /\ b = <<>> THEN (IF carry = 0 THEN <<>> ELSE <<carry>>)
    ELSE IF a = <<>> THEN BigSum(<<0>>, b, carry)
    ELSE IF b = <<>> THEN BigSum(a, <<0>>, carry)
    ELSE <<(Head(a) + Head(b) + carry) % 134217728>>
            \o BigSum(Tail(a), Tail(b), (Head(a) + Head(b) + carry) \div 134217728)

RECURSIVE BigDiff(_, _, _)
\* a - b - borrow, for a >= b + borrow
BigDiff(a, b, borrow) ==
    IF a = <<>> THEN <<>>
    ELSE IF b = <<>> THEN BigDiff(a, <<0>>, borrow)
    ELSE IF Head(a) >= Head(b) + borrow
    THEN <<Head(a) - Head(b) - borrow>> \o BigDiff(Tail(a), Tail(b), 0)
    ELSE <<Head(a) + 134217728 - Head(b) - borrow>> \o BigDiff(Tail(a), Tail(b), 1)

RECURSIVE BigCmp(_, _)
\* -1, 0 or 1 as a is below, equal to or above b
BigCmp(a, b) ==
    IF a = <<>> /\ b = <<>> THEN 0
    ELSE IF a = <<>> THEN BigCmp(<<0>>, b)
    ELSE IF b = <<>> THEN BigCmp(a, <<0>>)
    ELSE IF BigCmp(Tail(a), Tail(b)) # 0 THEN BigCmp(Tail(a), Tail(b))
    ELSE IF Head(a) < Head(b) THEN -1
    ELSE IF Head(a) > Head(b) THEN 1
    ELSE 0

RECURSIVE BigShift(_, _, _)
\* a * 2^n + carry, for a carry below 2^n when n < 27
BigShift(a, n, carry) ==
    IF n >= 27 THEN <<0>> \o BigShift(a, n - 27, 0)
    ELSE IF a = <<>> THEN (IF carry = 0 THEN <<>> ELSE <<carry>>)
    ELSE <<(Head(a) % 2^(27 - n)) * 2^n + carry>>
            \o BigShift(Tail(a), n, Head(a) \div 2^(27 - n))

RECURSIVE BigDrop(_, _)
\* a \div 2^n
BigDrop(a, n) ==
    IF a = <<>> THEN a
    ELSE IF n >= 27 THEN BigDrop(Tail(a), n - 27)
    ELSE [i \in 1..Len(a) |->
            a[i] \div 2^n + (IF i < Len(a) THEN (a[i + 1] % 2^n) * 2^(27 - n) ELSE 0)]

RECURSIVE BigBits(_)
\* the number of bits of a
BigBits(a) ==
    IF a = <<>> THEN 0
    ELSE IF BigBits(Tail(a)) > 0 THEN BigBits(Tail(a)) + 27
    ELSE BitLength(Head(a))

RECURSIVE BigTimes(_, _, _)
\* a * k + carry, for a natural number k below 2^14: a limb is multiplied in
\* two halves of 13 and 14 bits
BigTimes(a, k, carry) ==
    IF a = <<>> THEN (IF carry = 0 THEN <<>> ELSE <<carry>>)
    ELSE LET high == k * (Head(a) \div 16384)
             low == (high % 8192) * 16384 + k * (Head(a) % 16384) + carry
         IN  <<low % 134217728>> \o BigTimes(Tail(a), k, high \div 8192 + low \div 134217728)

\* A signed double is <<sign, hi, lo, e>>: sign -1, 0 or 1 times the positive
\* double <<hi, lo, e>>, and <<0, 0, 0, 0>> for zero.
ZeroDouble == <<0, 0, 0, 0>>

\* the 54 leading bits t of a number of `bits' bits, as <<bits, remainder>>
\* of a quotient
LeadingBits(a, t, bits) ==
    <<<<t[2], t[1]>>, IF bits > 54 /\ BigCmp(BigShift(t, bits - 54, 0), a) # 0 THEN <<0, 1>> ELSE <<0, 0>>>>

\* the double nearest to sign * a * 2^e, ties to even, for a of `bits' bits
RoundedBits(sign, a, e, bits) ==
    IF bits = 0 THEN ZeroDouble
    ELSE <<sign>> \o RoundedQuotient(
            LeadingBits(a, IF bits > 54 THEN BigDrop(a, bits - 54) \o <<0, 0>>
                           ELSE BigShift(a, 54 - bits, 0) \o <<0, 0>>, bits),
            e + bits - 53)

RoundedBig(sign, a, e) == RoundedBits(sign, a, e, BigBits(a))

\* x + y for the magnitudes a and b of x and y in units of 2^e
SumAligned(x, a, y, b, e) ==
    IF x[1] = y[1] THEN RoundedBig(x[1], BigSum(a, b, 0), e)
    ELSE IF BigCmp(a, b) >= 0 THEN RoundedBig(x[1], BigDiff(a, b, 0), e)
    ELSE RoundedBig(y[1], BigDiff(b, a, 0), e)

SumAt(x, y, e) ==
    SumAligned(x, BigShift(<<x[3], x[2]>>, x[4] - e, 0), y, BigShift(<<y[3], y[2]>>, y[4] - e, 0), e)

\* x + y on doubles
SumDouble(x, y) ==
    IF x[1] = 0 THEN y
    ELSE IF y[1] = 0 THEN x
    ELSE SumAt(x, y, IF x[4] < y[4] THEN x[4] ELSE y[4])

\* x - y on doubles
DiffDouble(x, y) == SumDouble(x, <<-y[1], y[2], y[3], y[4]>>)

\* k * x on doubles, for a natural number k
TimesDouble(k, x) == RoundedBig(x[1], BigTimes(<<x[3], x[2]>>, k, 0), x[4])

\* the double nearest to a finite number a
SignedDouble(a) ==
    IF a[1] = 0 THEN ZeroDouble
    ELSE <<IF a[1] < 0 THEN -1 ELSE 1>> \o ToDouble(Abs(a))

\* ------------------------------------------------------------------------
\* Shared constants (src/core/constants.ts)
\* ------------------------------------------------------------------------

MAX_BINS == 10000

\* Number.EPSILON = 2^-52 and 1e-12 lie below every positive number this
\* model can represent (denominators stay below 2^31), so the comparisons
\* against them are decided exactly by the sign of the other operand.
WIDTH_EPS == <<1, 2147483647>>

\* Math.max(WIDTH_EPS, w)
MaxWidthEps(w) ==
    IF w = NaN THEN NaN
    ELSE IF w = PosInf THEN PosInf
    ELSE IF IsFinite(w) /\ Gt(w, Zero) THEN w
    ELSE WIDTH_EPS

\* RIGHT_CLOSED_EPS: the double nearest to 1e-12
RIGHT_CLOSED_EPS == <<36893488, 19786257, -92>>

\* Math.abs(d) < RIGHT_CLOSED_EPS, for a double d
WithinRightClosedEps(d) ==
    \/ d[1] = 0
    \/ d[4] < RIGHT_CLOSED_EPS[3]
    \/ d[4] = RIGHT_CLOSED_EPS[3] /\ ~LimbGe(<<d[2], d[3]>>, <<RIGHT_CLOSED_EPS[1], RIGHT_CLOSED_EPS[2]>>)

\* ------------------------------------------------------------------------
\* Extractor (src/core/engine.helpers.ts)
\* ------------------------------------------------------------------------

\* A data element is [num, val]: a number val itself (num), or a record
\* whose field read by the accessor holds val.

\* the caller's accessor x = (d, i) => d.value
XAccessor(d, i) == IF d.num THEN Null ELSE d.val

\* the caller's weight accessor weight = (d, i) => i  (0-based index)
WeightAccessor(d, i) == Num(i)

\* a second weight accessor of the caller, weight = (d, i) => table[i]
TableAccessor(table, d, i) == IF i < Len(table) THEN Num(table[i + 1]) ELSE Null

NoWeight == [kind |-> "none", w |-> Null, table |-> <<>>]
ConstWeight(w) == [kind |-> "const", w |-> w, table |-> <<>>]
FnWeight == [kind |-> "fn", w |-> Null, table |-> <<>>]
TableWeight(table) == [kind |-> "table", w |-> Null, table |-> table]

NonNumericWarning == "Non-numeric data provided without an accessor 'x'. All items will be ignored."

\* typeof data[0] === "number"
IsNumData(data) == Len(data) > 0 /\ data[1].num

\* v of line 22, for the element at 0-based index i
ValueAt(cfg, i) ==
    LET d == cfg.data[i + 1]
    IN  IF IsNumData(cfg.data)
        THEN (IF d.num THEN d.val ELSE NaN)
        ELSE (IF cfg.x THEN XAccessor(d, i) ELSE Null)

\* w of line 25, for the element at 0-based index i
WeightAt(cfg, i) ==
    IF cfg.weight.kind = "const" THEN cfg.weight.w
    ELSE IF cfg.weight.kind = "fn" THEN WeightAccessor(cfg.data[i + 1], i)
    ELSE IF cfg.weight.kind = "table" THEN TableAccessor(cfg.weight.table, cfg.data[i + 1], i)
    ELSE One

\* the two `continue` tests of the loop body
Rejected(cfg, i) ==
    LET v == ValueAt(cfg, i)
        w == WeightAt(cfg, i)
    IN  \/ IsNull(v) \/ ~IsFinite(v)
        \/ ~IsFinite(w) \/ Le(w, Zero)

RECURSIVE ExtractLoopZeroes(_, _, _, _)
\* mutant: a record with a bad weight is kept with weight 0 instead of dropped
ExtractLoopZeroes(cfg, i, xs, ws) ==
    IF i >= Len(cfg.data) THEN [xs |-> xs, ws |-> ws]
    ELSE IF IsNull(ValueAt(cfg, i)) \/ ~IsFinite(ValueAt(cfg, i))
    THEN ExtractLoopZeroes(cfg, i + 1, xs, ws)
    ELSE ExtractLoopZeroes(cfg, i + 1, Append(xs, ValueAt(cfg, i)),
                           Append(ws, IF Rejected(cfg, i) THEN Zero ELSE WeightAt(cfg, i)))

RECURSIVE ExtractLoop(_, _, _, _)
ExtractLoop(cfg, i, xs, ws) ==
    IF i >= Len(cfg.data) THEN [xs |-> xs, ws |-> ws]
    ELSE IF Rejected(cfg, i) THEN ExtractLoop(cfg, i + 1, xs, ws)
    ELSE ExtractLoop(cfg, i + 1, Append(xs, ValueAt(cfg, i)), Append(ws, WeightAt(cfg, i)))

extractValuesAndWeights(cfg) ==
    LET r == ExtractLoop(cfg, 0, <<>>, <<>>)
    IN  [xs |-> r.xs, ws |-> r.ws,
         warnings |-> IF ~IsNumData(cfg.data) /\ ~cfg.x
                      THEN <<NonNumericWarning>> ELSE <<>>]

\* ------------------------------------------------------------------------
\* Summarizer (src/core/stats.ts)
\* ------------------------------------------------------------------------

quantile(sorted, p) ==
    LET pos == Mul(Num(Len(sorted) - 1), p)
        lo == Floor(pos)
        hi == Ceil(pos)
    IN  IF lo = hi THEN sorted[lo + 1]
        ELSE Add(sorted[lo + 1],
                 Mul(Sub(sorted[hi + 1], sorted[lo + 1]), Sub(pos, Num(lo))))

RECURSIVE SummarizeLoopUnweighted(_, _, _, _)
\* mutant: sum adds the value without its weight
SummarizeLoopUnweighted(xs, ws, i, a) ==
    IF i > Len(xs) THEN a
    ELSE LET v == xs[i]
             w == ws[i]
         IN  SummarizeLoopUnweighted(xs, ws, i + 1,
                [min |-> IF Lt(v, a.min) THEN v ELSE a.min,
                 max |-> IF Gt(v, a.max) THEN v ELSE a.max,
                 sum |-> Add(a.sum, v),
                 sumsq |-> Add(a.sumsq, Mul(Mul(v, v), w)),
                 tw |-> Add(a.tw, w)])

RECURSIVE SummarizeLoop(_, _, _, _)
SummarizeLoop(xs, ws, i, a) ==
    IF i > Len(xs) THEN a
    ELSE LET v == xs[i]
             w == ws[i]
         IN  SummarizeLoop(xs, ws, i + 1,
                [min |-> IF Lt(v, a.min) THEN v ELSE a.min,
                 max |-> IF Gt(v, a.max) THEN v ELSE a.max,
                 sum |-> Add(a.sum, Mul(v, w)),
                 sumsq |-> Add(a.sumsq, Mul(Mul(v, v), w)),
                 tw |-> Add(a.tw, w)])

\* for non-empty xs
summarize(xs, ws) ==
    LET a == SummarizeLoop(xs, ws, 1,
                [min |-> xs[1], max |-> xs[1], sum |-> Zero, sumsq |-> Zero, tw |-> Zero])
        mean == Div(a.sum, a.tw)
        variance == Max(Zero, Sub(Div(a.sumsq, a.tw), Mul(mean, mean)))
        sorted == SortSeq(xs, Lt)
        iqr == Max(Zero, Sub(quantile(sorted, Rat(3, 4)), quantile(sorted, Rat(1, 4))))
    IN  [min |-> a.min, max |-> a.max, mean |-> mean, variance |-> variance,
         sd |-> Sqrt(variance), iqr |-> iqr, totalWeight |-> a.tw]

\* ------------------------------------------------------------------------
\* Domain resolver (src/core/engine.helpers.ts)
\* ------------------------------------------------------------------------

NoDomain == [given |-> FALSE, d0 |-> Null, d1 |-> Null]
Domain(a, b) == [given |-> TRUE, d0 |-> a, d1 |-> b]

NonFiniteDomainWarning == "Provided domain contains non-finite values; falling back to observed min/max."
ReversedDomainWarning == "Provided domain was reversed; it has been normalized to [min, max]."
ZeroWidthDomainWarning == "Zero-width domain encountered; expanded symmetrically by a small epsilon."

\* the if (domain) ... else ... part: fallback and swap
DomainBounds(domain, observedMin, observedMax) ==
    IF domain.given
    THEN LET nonFinite == ~IsFinite(domain.d0) \/ ~IsFinite(domain.d1)
             a == IF nonFinite THEN observedMin ELSE domain.d0
             b == IF nonFinite THEN observedMax ELSE domain.d1
             w1 == IF nonFinite THEN <<NonFiniteDomainWarning>> ELSE <<>>
         IN  IF Gt(a, b)
             THEN [d0 |-> b, d1 |-> a, warnings |-> Append(w1, ReversedDomainWarning)]
             ELSE [d0 |-> a, d1 |-> b, warnings |-> w1]
    ELSE [d0 |-> observedMin, d1 |-> observedMax, warnings |-> <<>>]

\* mutant: a relative epsilon only, which vanishes at 0
ZeroWidthEpsRelative(d0) == Mul(Abs(d0), Rat(1, 1000000))

\* eps of the zero-width expansion
ZeroWidthEps(d0) == IF d0 = Zero THEN One ELSE Mul(Abs(d0), Rat(1, 1000000))

\* mutant: the zero-width domain is expanded upwards only
resolveDomainOneSided(domain, observedMin, observedMax) ==
    LET r == DomainBounds(domain, observedMin, observedMax)
    IN  IF r.d0 = r.d1
        THEN [d0 |-> r.d0,
              d1 |-> Add(r.d1, ZeroWidthEps(r.d0)),
              warnings |-> Append(r.warnings, ZeroWidthDomainWarning)]
        ELSE r

resolveDomain(domain, observedMin, observedMax) ==
    LET r == DomainBounds(domain, observedMin, observedMax)
    IN  IF r.d0 = r.d1
        THEN [d0 |-> Sub(r.d0, ZeroWidthEps(r.d0)),
              d1 |-> Add(r.d1, ZeroWidthEps(r.d0)),
              warnings |-> Append(r.warnings, ZeroWidthDomainWarning)]
        ELSE r

\* ------------------------------------------------------------------------
\* Binning planner (src/core/binning.ts, src/core/engine.helpers.ts)
\* ------------------------------------------------------------------------

NoBinning == [mode |-> "none", rule |-> "none", binWidth |-> Null, binCount |-> Null]
AutoBinning(rule) == [mode |-> "auto", rule |-> rule, binWidth |-> Null, binCount |-> Null]
WidthBinning(w) == [mode |-> "binWidth", rule |-> "none", binWidth |-> w, binCount |-> Null]
CountBinning(c) == [mode |-> "binCount", rule |-> "none", binWidth |-> Null, binCount |-> c]

clampWidth(w) == MaxWidthEps(IF IsFinite(w) /\ Gt(w, Zero) THEN w ELSE One)

RECURSIVE firstFinite(_)
\* mutant: the first finite candidate, whatever its sign
firstFinite(cands) ==
    IF cands = <<>> THEN NaN
    ELSE IF IsFinite(Head(cands)) THEN Head(cands)
    ELSE firstFinite(Tail(cands))

RECURSIVE firstPositiveFinite(_)
firstPositiveFinite(cands) ==
    IF cands = <<>> THEN NaN
    ELSE IF IsFinite(Head(cands)) /\ Gt(Head(cands), Zero) THEN Head(cands)
    ELSE firstPositiveFinite(Tail(cands))

\* a || b on numbers: 0 and NaN are falsy
OrElse(a, b) == IF a = Zero \/ a = NaN THEN b ELSE a

chooseBinWidth(range, n, iqr, sd, strat) ==
    IF strat.mode = "none" \/ strat.mode = "auto"
    THEN LET rule == IF strat.mode = "auto" /\ strat.rule # "none" THEN strat.rule ELSE "fd"
             safeN == IF n < 1 THEN 1 ELSE n
             nRoot == Div(One, Cbrt(safeN))
             fd == Mul(Mul(Num(2), iqr), nRoot)
             sc == Mul(Mul(Rat(7, 2), sd), nRoot)
             stK == IF CeilLog2(safeN) + 1 < 1 THEN 1 ELSE CeilLog2(safeN) + 1
             st == Div(range, Num(stK))
             h == IF rule = "fd" THEN firstPositiveFinite(<<fd, sc, st>>)
                  ELSE IF rule = "scott" THEN firstPositiveFinite(<<sc, fd, st>>)
                  ELSE st
         IN  clampWidth(OrElse(h, OrElse(range, One)))
    ELSE IF strat.mode = "binWidth" THEN clampWidth(strat.binWidth)
    ELSE LET f == Floor(strat.binCount)
             k == IF f < 1 THEN 1 ELSE f
         IN  clampWidth(Div(range, Num(k)))

\* Math.max(1, Math.ceil(range / h)), as a number: NaN when range / h is NaN.
\* The quotient of a finite range > 0 by a finite h > 0 is the quotient of the
\* doubles nearest to them.
BinCountFor(range, h) ==
    LET q == Div(range, h)
    IN  IF q = NaN \/ q = PosInf THEN q
        ELSE IF ~Gt(q, Zero) THEN One
        ELSE Num(CeilDouble(DivDouble(ToDouble(range), ToDouble(h))))

\* new Float64Array(k + 1) raises a RangeError for k = Infinity
buildEdgesThrows(start, end, h) == Div(Sub(end, start), h) = PosInf

\* the edges for the bin count kn, as a number
EdgesFor(start, end, h, kn) ==
    IF ~IsFinite(kn) THEN <<>>
    ELSE [i \in 1..(kn[1] + 1) |->
            IF i <= kn[1] THEN Add(start, Mul(Num(i - 1), h)) ELSE end]

\* new Float64Array(NaN) is empty, and the write to edges[NaN] is ignored
buildEdges(start, end, h) == EdgesFor(start, end, h, BinCountFor(Sub(end, start), h))

BinCountWarning == "Bin count exceeds MAX_BINS; increasing bin width."

\* lines 89-90: the edges for the final width h
PlanEdges(d0, d1, h, over) ==
    [h |-> h, edges |-> buildEdges(d0, d1, h), threw |-> buildEdgesThrows(d0, d1, h),
     binWarnings |-> IF over THEN <<BinCountWarning>> ELSE <<>>]

\* lines 78-79: the width of the strategy, at least WIDTH_EPS
PlanWidth(range, n, iqr, sd, binning) ==
    MaxWidthEps(chooseBinWidth(range, n, iqr, sd,
                               IF binning.mode = "none" THEN AutoBinning("fd") ELSE binning))

\* lines 82-87: above MAX_BINS bins the width becomes range / MAX_BINS
PlanCapped(d0, d1, range, h0, over) ==
    PlanEdges(d0, d1, IF over THEN MaxWidthEps(Div(range, Num(MAX_BINS))) ELSE h0, over)

\* line 81: the tentative bin count of the width h0
PlanCounted(d0, d1, range, h0) ==
    PlanCapped(d0, d1, range, h0, Gt(BinCountFor(range, h0), Num(MAX_BINS)))

computeBinningPlan(d0, d1, n, iqr, sd, binning) ==
    PlanCounted(d0, d1, Sub(d1, d0), PlanWidth(Sub(d1, d0), n, iqr, sd, binning))

resolveOverflowFlags(overflow) ==
    [under |-> IF overflow.kind = "bool" THEN overflow.b
               ELSE overflow.kind = "obj" /\ overflow.underflow,
     over |-> IF overflow.kind = "bool" THEN overflow.b
              ELSE overflow.kind = "obj" /\ overflow.overflow]

NoOverflow == [kind |-> "none", b |-> FALSE, underflow |-> FALSE, overflow |-> FALSE]
BoolOverflow(b) == [kind |-> "bool", b |-> b, underflow |-> FALSE, overflow |-> FALSE]
ObjOverflow(u, o) == [kind |-> "obj", b |-> FALSE, underflow |-> u, overflow |-> o]

\* ------------------------------------------------------------------------
\* Classifier / accumulator (src/core/assign.ts)
\* ------------------------------------------------------------------------

\* Math.floor(d / h) on doubles: -1 stands for every negative index, 2^30 for
\* every index of 2^30 and above (Infinity included), -2 for NaN (0 / 0)
FloorQuotient(d, h) ==
    IF h[1] = 0 THEN (IF d[1] = 0 THEN -2 ELSE IF d[1] < 0 THEN -1 ELSE 1073741824)
    ELSE IF d[1] = 0 THEN 0
    ELSE IF d[1] # h[1] THEN -1
    ELSE FloorDouble(DivDouble(Tail(d), Tail(h)))

\* -1: underflow, k: overflow, -2: NaN, otherwise the 0-based in-range bin;
\* x, start and h are doubles
classify(x, start, h, k, rule) ==
    LET idx == FloorQuotient(DiffDouble(x, start), h)
    IN  IF idx < 0 THEN idx
        ELSE IF idx >= k
        THEN (IF rule = "closed-right"
                 /\ WithinRightClosedEps(DiffDouble(x, SumDouble(start, TimesDouble(k, h))))
              THEN k - 1 ELSE k)
        ELSE idx

\* mutant: overflow is dropped even when its capture is enabled
SlotOfDropsOverflow(j, k, withUnder, withOver) ==
    LET u == IF withUnder THEN 1 ELSE 0
    IN  IF j < 0 THEN (IF withUnder THEN 0 ELSE -1)
        ELSE IF j >= k THEN -1
        ELSE j + u

\* mutant: without capture, an out-of-range observation is clamped into the
\* nearest in-range bin
SlotOfClamps(j, k, withUnder, withOver) ==
    LET u == IF withUnder THEN 1 ELSE 0
    IN  IF j < 0 THEN 0
        ELSE IF j >= k THEN (IF withOver THEN k + u ELSE k - 1 + u)
        ELSE j + u

\* the 0-based slot of classification j, or -1 when the observation is dropped
SlotOf(j, k, withUnder, withOver) ==
    LET u == IF withUnder THEN 1 ELSE 0
    IN  IF j < 0 THEN (IF withUnder THEN 0 ELSE -1)
        ELSE IF j >= k THEN (IF withOver THEN k + u ELSE -1)
        ELSE j + u

\* the outcome of the TypeError that items[NaN].push raises
AccumulateThrew == [threw |-> TRUE, counts |-> <<>>, items |-> <<>>]

RECURSIVE AccumulateLoop(_, _, _, _, _, _, _, _, _, _)
\* i is the 0-based loop index into xs
AccumulateLoop(xs, ws, i, edge0, binWidth, k, rule, withUnder, withOver, a) ==
    IF i >= Len(xs) THEN a
    ELSE LET j == classify(SignedDouble(xs[i + 1]), edge0, binWidth, k, rule)
             slot == SlotOf(j, k, withUnder, withOver)
         IN  IF j = -2 THEN AccumulateThrew
             ELSE AccumulateLoop(xs, ws, i + 1, edge0, binWidth, k, rule, withUnder, withOver,
                    IF slot < 0 THEN a
                    ELSE [threw |-> FALSE,
                          counts |-> [a.counts EXCEPT ![slot + 1] = Add(@, ws[i + 1])],
                          items |-> [a.items EXCEPT ![slot + 1] = Append(@, i)]])

\* the double that buildEdges stored in edges[1]: end when there is one bin,
\* start + 1 * h otherwise
SecondEdge(edges, h) ==
    IF Len(edges) = 2 THEN SignedDouble(edges[2])
    ELSE SumDouble(SignedDouble(edges[1]), SignedDouble(h))

\* binWidth of line 44
BinWidthOf(edges, h) == DiffDouble(SecondEdge(edges, h), SignedDouble(edges[1]))

\* slots 1..k+extra
AccumulateSlots(edges, withUnder, withOver) ==
    1..(Len(edges) - 1 + (IF withUnder THEN 1 ELSE 0) + (IF withOver THEN 1 ELSE 0))

accumulate(xs, ws, start, h, edges, rule, withUnder, withOver) ==
    IF Len(edges) < 2
    THEN AccumulateThrew
    ELSE AccumulateLoop(xs, ws, 0, SignedDouble(edges[1]), BinWidthOf(edges, h), Len(edges) - 1,
                        rule, withUnder, withOver,
                        [threw |-> FALSE,
                         counts |-> [q \in AccumulateSlots(edges, withUnder, withOver) |-> Zero],
                         items |-> [q \in AccumulateSlots(edges, withUnder, withOver) |-> <<>>]])

\* ------------------------------------------------------------------------
\* Bin builder (src/core/engine.helpers.ts)
\* ------------------------------------------------------------------------

\* mutant: cum is reset for every slot
RunningSumsReset(counts, lo, hi, base) == [q \in 1..(hi - lo + 1) |-> counts[lo + q - 1]]

RECURSIVE RunningSums(_, _, _, _)
\* the values cum takes after each of the slots lo..hi, starting from base
RunningSums(counts, lo, hi, base) ==
    IF lo > hi THEN <<>>
    ELSE IF lo = hi THEN <<Add(base, counts[lo])>>
    ELSE LET mid == (lo + hi) \div 2
             left == RunningSums(counts, lo, mid, base)
         IN  left \o RunningSums(counts, mid + 1, hi, left[Len(left)])

\* mutant: the fraction is not scaled to a percentage
PercentUnscaled(count, totalW) == Div(count, totalW)

\* percent of line 126
Percent(count, totalW) == Mul(Div(count, totalW), Num(100))

IsCumulative(measure) ==
    measure \in {"cumulative-count", "cumulative-percent", "cumulative-density"}

\* mutant: the last bin ends at an edge also when it is the overflow bin
BinEndAtEdge(i, k, under, over, edges) ==
    edges[(IF i + 1 - (IF under THEN 1 ELSE 0) > Len(edges) - 1 THEN Len(edges) - 1
           ELSE i + 1 - (IF under THEN 1 ELSE 0)) + 1]

\* the end of bin i of k: +Infinity for the overflow bin, else the edge
\* edges[min(edges.length - 1, i + 1 - (under ? 1 : 0))]
BinEnd(i, k, under, over, edges) ==
    IF i = k - 1 /\ over THEN PosInf
    ELSE edges[(IF i + 1 - (IF under THEN 1 ELSE 0) > Len(edges) - 1 THEN Len(edges) - 1
                ELSE i + 1 - (IF under THEN 1 ELSE 0)) + 1]

buildBins(counts, items, edges, h, under, over, totalW, measure) ==
    LET k == Len(counts)
        elen == Len(edges)
        u == IF under THEN 1 ELSE 0
        widths == [q \in 1..k |-> IF q - 1 < elen - 1 THEN Sub(edges[q + 1], edges[q]) ELSE h]
        cums == RunningSums(counts, 1, k, Zero)
        Lo(i) == IF i - u < 0 THEN 0 ELSE i - u
        Bin(i) ==
            LET start == IF i = 0 /\ under THEN NegInf ELSE edges[Lo(i) + 1]
                end == BinEnd(i, k, under, over, edges)
                w == widths[Lo(i) + 1]
                widthEff == IF IsFinite(w) /\ Gt(w, Zero) THEN w ELSE MaxWidthEps(h)
                count == counts[i + 1]
                cum == cums[i + 1]
                cumul == IsCumulative(measure)
            IN  [index |-> i, start |-> start, end |-> end,
                 center |-> IF IsFinite(start) /\ IsFinite(end)
                            THEN Div(Add(start, end), Num(2))
                            ELSE IF IsFinite(start) THEN start ELSE end,
                 width |-> widthEff,
                 count |-> count,
                 percent |-> Percent(count, totalW),
                 density |-> Div(count, Mul(totalW, widthEff)),
                 items |-> items[i + 1],
                 cumulativeCount |-> IF cumul THEN cum ELSE Null,
                 cumulativePercent |-> IF cumul THEN Percent(cum, totalW) ELSE Null,
                 cumulativeDensity |-> IF cumul THEN Div(cum, totalW) ELSE Null]
    IN  [q \in 1..k |-> Bin(q - 1)]

\* ------------------------------------------------------------------------
\* Orchestrator (src/core/engine.ts)
\* ------------------------------------------------------------------------

NoValidDataWarning == "No valid data"
ZeroWeightWarning == "Total weight is zero after filtering; returning empty histogram."

empty(extraWarnings) ==
    [bins |-> <<>>, domain |-> <<Zero, One>>, binWidth |-> One,
     stats |-> [n |-> 0, totalWeight |-> Zero, min |-> Zero, max |-> One, mean |-> Zero,
                variance |-> Zero, sd |-> Zero, iqr |-> Zero],
     warnings |-> <<NoValidDataWarning>> \o extraWarnings]

\* ------------------------------------------------------------------------
\* Inputs
\* ------------------------------------------------------------------------

\* longest enumerated data sequence
MaxLen == 2

NumberItem(v) == [num |-> TRUE, val |-> v]
RecordItem(v) == [num |-> FALSE, val |-> v]

NumberItems == {NumberItem(Num(v)) : v \in {-1, 0, 1, 2, 3}}

SeqsOver(S) == UNION {[1..n -> S] : n \in 0..MaxLen}

Weights == {NoWeight, ConstWeight(Num(2)), ConstWeight(Num(-1)), ConstWeight(PosInf), FnWeight}
Domains == {NoDomain, Domain(Num(0), Num(2))}
Binnings ==
    {NoBinning, AutoBinning("scott"), WidthBinning(Num(1)), WidthBinning(Rat(3, 2)),
     CountBinning(Num(2))}
Overflows == {NoOverflow, BoolOverflow(TRUE), ObjOverflow(TRUE, FALSE), ObjOverflow(FALSE, TRUE)}

Config(data, x, weight, domain, binning, edgeRule, overflow, measure) ==
    [data |-> data, x |-> x, weight |-> weight, domain |-> domain, binning |-> binning,
     edgeRule |-> edgeRule, overflow |-> overflow, measure |-> measure]

Numbers(seq) == [i \in 1..Len(seq) |-> NumberItem(Num(seq[i]))]

\* the worked examples of the specification, section 8
ExampleConfigs ==
    {Config(Numbers(<<1, 2, 2, 3, 4, 6, 9, 9, 10>>), FALSE, NoWeight,
            Domain(Num(1), Num(10)), WidthBinning(Num(3)), "closed-right", o, "count")
        : o \in {NoOverflow, BoolOverflow(TRUE)}}
    \cup {Config(Numbers(<<5>>), FALSE, NoWeight, NoDomain, NoBinning, "none", NoOverflow, "none")}
    \cup {Config(Numbers(<<1, 2, 3>>), FALSE, w, NoDomain, NoBinning, "none", NoOverflow, "none")
              : w \in {FnWeight, TableWeight(<<1, 2, 1>>)}}

\* requests above the bin-count ceiling
CeilingConfigs ==
    {Config(d, FALSE, NoWeight, dm, CountBinning(Num(50000)), "none", BoolOverflow(TRUE),
            "cumulative-count")
        : d \in {Numbers(<<0>>), Numbers(<<0, 2>>)},
          dm \in {NoDomain, Domain(Num(2), Num(0))}}
    \cup {Config(Numbers(<<0>>), FALSE, NoWeight, NoDomain, WidthBinning(Rat(1, 100000)),
                 "none", NoOverflow, "count")}

\* every domain, binning strategy, edge rule and capture flag, over numeric data
BinningGrid ==
    {Config(d, FALSE, NoWeight, dm, b, e, o, "cumulative-count")
        : d \in SeqsOver(NumberItems), dm \in Domains, b \in Binnings,
          e \in {"none", "closed-left"}, o \in Overflows}

\* every kind of data element, accessor, weight source and measure
ExtractionItems ==
    {NumberItem(Num(1)), NumberItem(Num(2)), NumberItem(NaN),
     RecordItem(Num(1)), RecordItem(Null)}

ExtractionGrid ==
    {Config(d, x, w, NoDomain, AutoBinning("sturges"), "closed-right", o, m)
        : d \in SeqsOver(ExtractionItems), x \in BOOLEAN, w \in Weights,
          o \in {NoOverflow, BoolOverflow(TRUE)}, m \in {"count", "cumulative-percent"}}

\* a caller domain spanning the whole range of finite numbers
FullRangeConfigs ==
    {Config(d, FALSE, NoWeight, Domain(Neg(MAX_VALUE), MAX_VALUE), b, "none", o, "count")
        : d \in {Numbers(<<0>>), Numbers(<<0, 2>>)},
          b \in {NoBinning, WidthBinning(Num(1)), CountBinning(Num(2))},
          o \in {NoOverflow, BoolOverflow(TRUE)}}

\* spans whose quotient by the bin count is no double (17 / 7, 169 / 10000,
\* 1 / 37 from the start 1000)
RoundingConfigs ==
    {Config(Numbers(<<0, 17>>), FALSE, NoWeight, dm, CountBinning(Num(c)), "none",
            NoOverflow, "count")
        : dm \in {NoDomain, Domain(Num(0), Num(169))}, c \in {7, 10000, 50000}}
    \cup {Config(Numbers(<<0, 17>>), FALSE, NoWeight, NoDomain, CountBinning(Num(7)),
                 "closed-left", NoOverflow, "count")}
    \cup {Config(Numbers(<<1000, 1001>>), FALSE, NoWeight, NoDomain, CountBinning(Num(37)),
                 "none", o, "count") : o \in {NoOverflow, BoolOverflow(TRUE)}}

Configs ==
    BinningGrid \cup ExtractionGrid \cup ExampleConfigs \cup CeilingConfigs
        \cup FullRangeConfigs \cup RoundingConfigs

\* ------------------------------------------------------------------------
\* computeHistogram as a state machine: one action per stage of the call
\* ------------------------------------------------------------------------

\* cfg .. result: one call of computeHistogram; unit: one call of a helper on its own
VARIABLES cfg, pc, xs, ws, warnings, s, dom, plan, acc, result, unit

vars == <<cfg, pc, xs, ws, warnings, s, dom, plan, acc, result, unit>>

NoSummary == [min |-> Null, max |-> Null, mean |-> Null, variance |-> Null,
              sd |-> Null, iqr |-> Null, totalWeight |-> Null]
NoDom == [d0 |-> Null, d1 |-> Null]
NoPlan == [h |-> Null, edges |-> <<>>]
NoAcc == [threw |-> FALSE, counts |-> <<>>, items |-> <<>>]
NoResult == [bins |-> <<>>, domain |-> <<Null, Null>>, binWidth |-> Null,
             stats |-> [n |-> -1, totalWeight |-> Null, min |-> Null, max |-> Null,
                        mean |-> Null, variance |-> Null, sd |-> Null, iqr |-> Null],
             warnings |-> <<>>]

NoUnit == [fn |-> "none", args |-> <<>>, returned |-> FALSE, ret |-> <<>>]

Init ==
    /\ cfg \in Configs
    /\ pc = "call"
    /\ xs = <<>> /\ ws = <<>> /\ warnings = <<>>
    /\ s = NoSummary /\ dom = NoDom /\ plan = NoPlan /\ acc = NoAcc
    /\ result = NoResult
    /\ unit = NoUnit

\* line 17
Extract ==
    /\ pc = "call"
    /\ LET e == extractValuesAndWeights(cfg)
       IN  xs' = e.xs /\ ws' = e.ws /\ warnings' = e.warnings
    /\ pc' = "extracted"
    /\ UNCHANGED <<cfg, s, dom, plan, acc, result, unit>>

\* line 19
ReturnNoData ==
    /\ pc = "extracted"
    /\ Len(xs) = 0
    /\ result' = empty(warnings)
    /\ pc' = "done"
    /\ UNCHANGED <<cfg, xs, ws, warnings, s, dom, plan, acc, unit>>

\* lines 21-26
Plan ==
    /\ pc = "extracted"
    /\ Len(xs) # 0
    /\ LET sm == summarize(xs, ws)
           d == resolveDomain(cfg.domain, sm.min, sm.max)
           p == computeBinningPlan(d.d0, d.d1, Len(xs), sm.iqr, sm.sd, cfg.binning)
       IN  /\ s' = sm
           /\ dom' = [d0 |-> d.d0, d1 |-> d.d1]
           /\ plan' = [h |-> p.h, edges |-> p.edges]
           /\ warnings' = warnings \o d.warnings \o p.binWarnings
           /\ pc' = IF p.threw THEN "threw" ELSE "planned"
    /\ UNCHANGED <<cfg, xs, ws, acc, result, unit>>

EdgeRuleOf(c) == IF c.edgeRule = "none" THEN "closed-right" ELSE c.edgeRule

\* lines 28-30
Accumulate ==
    /\ pc = "planned"
    /\ LET f == resolveOverflowFlags(cfg.overflow)
           edge0 == IF Len(plan.edges) > 0 THEN plan.edges[1] ELSE Null
           a == accumulate(xs, ws, edge0, plan.h, plan.edges, EdgeRuleOf(cfg),
                           f.under, f.over)
       IN  /\ acc' = a
           /\ pc' = IF a.threw THEN "threw" ELSE "accumulated"
    /\ UNCHANGED <<cfg, xs, ws, warnings, s, dom, plan, result, unit>>

\* lines 31-55
Finish ==
    /\ pc = "accumulated"
    /\ LET f == resolveOverflowFlags(cfg.overflow)
           totalW == s.totalWeight
       IN  IF ~Gt(totalW, Zero)
           THEN /\ warnings' = Append(warnings, ZeroWeightWarning)
                /\ result' = empty(warnings')
           ELSE /\ warnings' = warnings
                /\ result' =
                     [bins |-> buildBins(acc.counts, acc.items, plan.edges, plan.h,
                                         f.under, f.over, totalW, cfg.measure),
                      domain |-> <<dom.d0, dom.d1>>,
                      binWidth |-> plan.h,
                      stats |-> [n |-> Len(xs), totalWeight |-> totalW, min |-> s.min,
                                 max |-> s.max, mean |-> s.mean, variance |-> s.variance,
                                 sd |-> s.sd, iqr |-> s.iqr],
                      warnings |-> warnings]
    /\ pc' = "done"
    /\ UNCHANGED <<cfg, xs, ws, s, dom, plan, acc, unit>>

Next == Extract \/ ReturnNoData \/ Plan \/ Accumulate \/ Finish

Spec == Init /\ [][Next]_vars

\* ------------------------------------------------------------------------
\* resolveDomain on its own: any caller domain, any observed min <= max
\* ------------------------------------------------------------------------

DomainEndpoints == {Num(v) : v \in {-1, 0, 1, 2}} \cup {NaN, PosInf, NegInf}
ObservedValues == {Num(-1), Num(0), Rat(1, 2)}

DomainArgs ==
    {<<dm, mn, mx>> : dm \in {NoDomain} \cup {Domain(a, b) : a, b \in DomainEndpoints},
                      mn \in ObservedValues, mx \in ObservedValues}

InitDomain ==
    /\ unit \in {[fn |-> "resolveDomain", args |-> a, returned |-> FALSE, ret |-> <<>>]
                    : a \in {t \in DomainArgs : Le(t[2], t[3])}}
    /\ cfg = Config(<<>>, FALSE, NoWeight, NoDomain, NoBinning, "none", NoOverflow, "none")
    /\ pc = "idle"
    /\ xs = <<>> /\ ws = <<>> /\ warnings = <<>>
    /\ s = NoSummary /\ dom = NoDom /\ plan = NoPlan /\ acc = NoAcc
    /\ result = NoResult

ResolveDomainCall ==
    /\ unit.fn = "resolveDomain"
    /\ ~unit.returned
    /\ unit' = [unit EXCEPT !.returned = TRUE,
                            !.ret = resolveDomain(unit.args[1], unit.args[2], unit.args[3])]
    /\ UNCHANGED <<cfg, pc, xs, ws, warnings, s, dom, plan, acc, result>>

NextDomain == ResolveDomainCall

SpecDomain == InitDomain /\ [][NextDomain]_vars

\* ------------------------------------------------------------------------
\* Properties
\* ------------------------------------------------------------------------

Flags == resolveOverflowFlags(cfg.overflow)

RECURSIVE SumSeq(_, _, _)
\* seq[lo] + ... + seq[hi]
SumSeq(seq, lo, hi) ==
    IF lo > hi THEN Zero
    ELSE IF lo = hi THEN seq[lo]
    ELSE LET mid == (lo + hi) \div 2
         IN  Add(SumSeq(seq, lo, mid), SumSeq(seq, mid + 1, hi))

InSeq(x, seq) == \E j \in 1..Len(seq) : seq[j] = x

BinCounts == [q \in 1..Len(result.bins) |-> result.bins[q].count]
BinPercents == [q \in 1..Len(result.bins) |-> result.bins[q].percent]

\* number of emitted bins that are neither the underflow nor the overflow bin
InRangeBinCount ==
    Len(result.bins) - (IF Flags.under THEN 1 ELSE 0) - (IF Flags.over THEN 1 ELSE 0)

\* the position in result.bins of the underflow, last in-range and overflow bin
FirstInRangePos == IF Flags.under THEN 2 ELSE 1
LastInRangePos == IF Flags.over THEN Len(result.bins) - 1 ELSE Len(result.bins)

\* the 0-based positions in xs that the accumulator put in no slot
DroppedObs ==
    {i \in 0..(Len(xs) - 1) : \A q \in 1..Len(acc.items) : ~InSeq(i, acc.items[q])}

\* a histogram was built from at least one valid observation
Built == pc = "done" /\ Len(xs) > 0

\* C1: with underflow and overflow capture both enabled, the counts of the
\* emitted bins add up to stats.totalWeight.
C1_Conservation ==
    (pc = "done" /\ Flags.under /\ Flags.over)
        => SumSeq(BinCounts, 1, Len(BinCounts)) = result.stats.totalWeight

\* C1 witness: a finished call with both captures enabled whose underflow and
\* overflow bins both received weight.
C1_Witness ==
    /\ Built /\ Flags.under /\ Flags.over
    /\ Gt(result.bins[1].count, Zero)
    /\ Gt(result.bins[Len(result.bins)].count, Zero)
    /\ Len(result.bins) >= 4

\* the bin at position q counts exactly the input records its items name
ItemsNameCountedRecords(q) ==
    LET its == result.bins[q].items
    IN  /\ \A j \in 1..Len(its) : its[j] < Len(cfg.data) /\ ~Rejected(cfg, its[j])
        /\ result.bins[q].count =
              SumSeq([j \in 1..Len(its) |-> WeightAt(cfg, its[j])], 1, Len(its))

\* C2: every index in a bin's items is the position in the input data of a
\* record that passed extraction and was counted in that bin.
C2_ItemsIndexInput ==
    pc = "done" => \A q \in 1..Len(result.bins) : ItemsNameCountedRecords(q)

\* C3 as stated: with a cumulative measure, cumulativeCount never decreases
\* along the bins and the last one equals stats.totalWeight.
C3_CumulativeReachesTotal ==
    (Built /\ IsCumulative(cfg.measure)) =>
        /\ \A q \in 1..(Len(result.bins) - 1) :
              Le(result.bins[q].cumulativeCount, result.bins[q + 1].cumulativeCount)
        /\ result.bins[Len(result.bins)].cumulativeCount = result.stats.totalWeight

\* C3 amended: with a cumulative measure, cumulativeCount never decreases
\* along the bins, and the last one equals stats.totalWeight whenever no
\* observation was dropped at classification.
C3_CumulativeMonotone ==
    (Built /\ IsCumulative(cfg.measure)) =>
        /\ \A q \in 1..(Len(result.bins) - 1) :
              Le(result.bins[q].cumulativeCount, result.bins[q + 1].cumulativeCount)
        /\ DroppedObs = {} =>
              result.bins[Len(result.bins)].cumulativeCount = result.stats.totalWeight

\* C3 witness: a cumulative histogram with nothing dropped whose running sum
\* grows along the bins.
C3_Witness ==
    /\ Built /\ IsCumulative(cfg.measure) /\ DroppedObs = {}
    /\ Len(result.bins) >= 2
    /\ Gt(result.bins[1].cumulativeCount, Zero)
    /\ Lt(result.bins[1].cumulativeCount, result.bins[Len(result.bins)].cumulativeCount)

\* C4: with no valid observation the call returns zero bins, domain [0,1],
\* every numeric field of stats equal to 0 and the "No valid data" warning.
C4_EmptyResultAllZero ==
    (pc = "done" /\ Len(xs) = 0) =>
        /\ result.bins = <<>>
        /\ result.domain = <<Zero, One>>
        /\ result.stats.n = 0
        /\ \A f \in {"totalWeight", "min", "max", "mean", "variance", "sd", "iqr"} :
              result.stats[f] = Zero
        /\ InSeq(NoValidDataWarning, result.warnings)

CeilingRequested == cfg.binning.mode = "binCount" /\ Gt(cfg.binning.binCount, Num(MAX_BINS))

\* C5 as stated: a binCount above 10,000 yields exactly 10,000 in-range bins
\* and exactly one warning, the bin-count one.
C5_CeilingOneWarning ==
    (Built /\ CeilingRequested) =>
        /\ InRangeBinCount = MAX_BINS
        /\ result.warnings = <<BinCountWarning>>

DomainWarnings == {NonFiniteDomainWarning, ReversedDomainWarning, ZeroWidthDomainWarning}

\* the plan's width divides the span of the resolved domain exactly
WidthDividesSpan == Div(Sub(dom.d1, dom.d0), plan.h)[2] = 1

\* the 0-based position i of xs was counted in the bin at position q
CountedIn(i, q) == InSeq(i, result.bins[q].items)

\* C6: under closed-right, when the bin width divides the domain span exactly,
\* an observation equal to the upper domain bound is counted in the final
\* in-range bin and not in the overflow bin, with overflow capture on or off.
C6_UpperBoundInLastBin ==
    (Built /\ EdgeRuleOf(cfg) = "closed-right" /\ WidthDividesSpan) =>
        \A i \in 0..(Len(xs) - 1) :
            xs[i + 1] = dom.d1 =>
                /\ CountedIn(i, LastInRangePos)
                /\ Flags.over => ~CountedIn(i, Len(result.bins))

\* C7: when valid observations exist but classification drops them all, the
\* call returns the empty result with the zero-total-weight warning.
C7_AllDroppedReturnsEmpty ==
    (Built /\ DroppedObs = 0..(Len(xs) - 1)) =>
        /\ result.bins = <<>>
        /\ result.domain = <<Zero, One>>
        /\ InSeq(ZeroWeightWarning, result.warnings)

\* C8: when no observation is dropped at classification, the percents of the
\* emitted bins add up to 100.
C8_PercentSum ==
    (Built /\ DroppedObs = {}) => SumSeq(BinPercents, 1, Len(BinPercents)) = Num(100)

\* C8 witness: nothing dropped and the weight split over two bins.
C8_Witness ==
    /\ Built /\ Len(result.bins) = 2 /\ DroppedObs = {}
    /\ \E q1, q2 \in 1..Len(result.bins) :
          /\ q1 # q2
          /\ Gt(result.bins[q1].percent, Zero)
          /\ Gt(result.bins[q2].percent, Zero)
          /\ result.bins[q1].percent # result.bins[q2].percent

SinglePoint == Built /\ ~cfg.domain.given /\ \A i \in 1..Len(xs) : xs[i] = xs[1]

AllInRange ==
    \A i \in 0..(Len(xs) - 1) : \E q \in FirstInRangePos..LastInRangePos : CountedIn(i, q)

CeilingExceeded ==
    \/ CeilingRequested
    \/ /\ cfg.binning.mode = "binWidth"
       /\ IsFinite(cfg.binning.binWidth) /\ Gt(cfg.binning.binWidth, Zero)
       /\ Ceil(Div(Sub(dom.d1, dom.d0), cfg.binning.binWidth)) > MAX_BINS

ValidRecords ==
    SelectSeq([i \in 1..Len(cfg.data) |-> i - 1],
              LAMBDA i : /\ ~IsNull(ValueAt(cfg, i)) /\ IsFinite(ValueAt(cfg, i))
                         /\ IsFinite(WeightAt(cfg, i)) /\ Gt(WeightAt(cfg, i), Zero))

Extracted == pc \in {"extracted", "planned", "accumulated", "done"}

\* C11: after extraction xs and ws have equal length, every retained value is
\* finite and every retained weight finite and strictly positive; the retained
\* pairs are exactly the valid input records, in order (a record with a bad
\* value or a bad weight is dropped as a whole); and stats.n is their number.
C11_ExtractionRetainsValid ==
    Extracted =>
        /\ Len(xs) = Len(ws)
        /\ Len(xs) = Len(ValidRecords)
        /\ \A j \in 1..Len(xs) :
              /\ IsFinite(xs[j]) /\ IsFinite(ws[j]) /\ Gt(ws[j], Zero)
              /\ xs[j] = ValueAt(cfg, ValidRecords[j])
              /\ ws[j] = WeightAt(cfg, ValidRecords[j])
        /\ pc = "done" => result.stats.n = Len(ValidRecords)

\* C11 witness: two records with finite values, the first dropped for its
\* weight 0, the second retained alone and counted by stats.n.
C11_Witness ==
    /\ pc = "done" /\ Len(cfg.data) = 2 /\ cfg.weight.kind = "fn"
    /\ IsFinite(ValueAt(cfg, 0)) /\ IsFinite(ValueAt(cfg, 1))
    /\ Len(xs) = 1 /\ ws = <<One>> /\ xs = <<ValueAt(cfg, 1)>>
    /\ result.stats.n = 1

\* the planner has run: plan holds the final width and the edges
Planned == pc \in {"planned", "accumulated", "done"} /\ Len(xs) > 0

\* C12: the edges built by the planner are k+1 strictly increasing values with
\* edges[0] = d0 and edges[k] = d1, k = max(1, ceil((d1 - d0) / h)) for the
\* final width h, and consecutive edges h apart, except the last interval,
\* which the snap to d1 may make shorter.
C12_EdgesUniformSnapped ==
    (pc \in {"planned", "accumulated", "done", "threw"} /\ Len(xs) > 0) =>
        LET k == Len(plan.edges) - 1
            range == Sub(dom.d1, dom.d0)
        IN  /\ k >= 1
            /\ Ge(Mul(Num(k), plan.h), range)
            /\ k > 1 => Lt(Mul(Num(k - 1), plan.h), range)
            /\ plan.edges[1] = dom.d0
            /\ plan.edges[k + 1] = dom.d1
            /\ \A i \in 1..k : Lt(plan.edges[i], plan.edges[i + 1])
            /\ \A i \in 1..(k - 1) : Sub(plan.edges[i + 1], plan.edges[i]) = plan.h
            /\ Le(Sub(plan.edges[k + 1], plan.edges[k]), plan.h)

\* C13: computeHistogram never raises: the planner always hands the accumulator
\* at least two edges, so the call never ends in accumulate's error "edges must
\* contain at least two entries".
C13_StructuralErrorUnreachable ==
    /\ pc # "threw"
    /\ Planned => Len(plan.edges) >= 2

\* the classification of the observation at 0-based position i of xs
ClassOf(i) ==
    classify(SignedDouble(xs[i + 1]), SignedDouble(plan.edges[1]), BinWidthOf(plan.edges, plan.h),
             Len(plan.edges) - 1, EdgeRuleOf(cfg))

\* the positions of xs classified as underflow or overflow while the
\* corresponding capture flag is disabled
Uncaptured ==
    {i \in 0..(Len(xs) - 1) :
        \/ ClassOf(i) < 0 /\ ~Flags.under
        \/ ClassOf(i) >= Len(plan.edges) - 1 /\ ~Flags.over}

\* the weights of the observations that are not in Uncaptured, 0 for the others
CapturedWeights == [j \in 1..Len(xs) |-> IF (j - 1) \in Uncaptured THEN Zero ELSE ws[j]]

\* C14: an observation classified as underflow (overflow) while that capture
\* is disabled is in no bin's items and in no bin's count, but is counted in
\* stats.n and stats.totalWeight, so the percents then add up to less than 100.
C14_UncapturedDropped ==
    Built =>
        /\ \A i \in Uncaptured : \A q \in 1..Len(result.bins) : ~CountedIn(i, q)
        /\ SumSeq(BinCounts, 1, Len(BinCounts)) = SumSeq(CapturedWeights, 1, Len(xs))
        /\ result.stats.n = Len(xs)
        /\ result.stats.totalWeight = SumSeq(ws, 1, Len(ws))
        /\ Uncaptured # {} => Lt(SumSeq(BinPercents, 1, Len(BinPercents)), Num(100))

\* C14 witness: two observations, the one below the domain dropped for lack
\* of underflow capture and the other counted, so the percents add up to 50.
C14_Witness ==
    /\ Built /\ Len(xs) = 2 /\ ~Flags.under
    /\ Uncaptured = {0} /\ ClassOf(0) < 0
    /\ result.stats.n = 2 /\ result.stats.totalWeight = Num(2)
    /\ SumSeq(BinPercents, 1, Len(BinPercents)) = Num(50)

\* value * weight of the valid input records, in input order
ValidProducts ==
    [j \in 1..Len(ValidRecords) |->
        Mul(ValueAt(cfg, ValidRecords[j]), WeightAt(cfg, ValidRecords[j]))]

ValidWeights == [j \in 1..Len(ValidRecords) |-> WeightAt(cfg, ValidRecords[j])]

\* C15: stats.totalWeight is the sum of the weights of the observations that
\* passed extraction and stats.mean * stats.totalWeight the sum of their
\* value * weight; data [1,2,3] with weights [1,2,1] has totalWeight 4, mean 2.
C15_WeightedMean ==
    Built =>
        /\ result.stats.totalWeight = SumSeq(ValidWeights, 1, Len(ValidWeights))
        /\ Mul(result.stats.mean, result.stats.totalWeight)
              = SumSeq(ValidProducts, 1, Len(ValidProducts))
        /\ (cfg.data = Numbers(<<1, 2, 3>>) /\ cfg.weight = TableWeight(<<1, 2, 1>>))
              => result.stats.totalWeight = Num(4) /\ result.stats.mean = Num(2)

\* C15 witness: the worked example, data [1,2,3] with weights [1,2,1].
C15_Witness ==
    /\ Built
    /\ cfg.data = Numbers(<<1, 2, 3>>) /\ cfg.weight = TableWeight(<<1, 2, 1>>)
    /\ ws = <<Num(1), Num(2), Num(1)>>
    /\ result.stats.totalWeight = Num(4) /\ result.stats.mean = Num(2)

\* the raw index floor((x - edges[0]) / h) of the observation at 0-based
\* position i of xs, for the width h that accumulate hands to classify
RawIndex(i) ==
    FloorQuotient(DiffDouble(SignedDouble(xs[i + 1]), SignedDouble(plan.edges[1])),
                  BinWidthOf(plan.edges, plan.h))

\* C20: an observation whose raw index is >= k is, under closed-right, put in
\* the last in-range bin exactly when it lies within 1e-12 of the upper domain
\* bound d1 and is overflow otherwise; under closed-left it is never folded.
C20_FoldAtUpperBound ==
    Built =>
        \A i \in 0..(Len(xs) - 1) :
            RawIndex(i) >= Len(plan.edges) - 1 =>
                IF EdgeRuleOf(cfg) = "closed-right"
                      /\ WithinRightClosedEps(DiffDouble(SignedDouble(xs[i + 1]), SignedDouble(dom.d1)))
                THEN CountedIn(i, LastInRangePos)
                ELSE /\ ~CountedIn(i, LastInRangePos)
                     /\ Flags.over => CountedIn(i, Len(result.bins))

\* the positions in result.bins of the in-range bins
InRangePositions == FirstInRangePos..LastInRangePos

\* C21: every observation counted in an in-range bin lies in that bin's
\* interval, start <= x <= end.
C21_CountedWithinInterval ==
    Built =>
        \A q \in InRangePositions : \A i \in 0..(Len(xs) - 1) :
            CountedIn(i, q) =>
                /\ Le(result.bins[q].start, xs[i + 1])
                /\ Le(xs[i + 1], result.bins[q].end)

\* the 0-based positions j of the interior edges, 0 < j < k
InteriorEdges == 1..(Len(plan.edges) - 2)

\* the position in result.bins of the 0-based in-range bin j
InRangePos(j) == FirstInRangePos + j

\* C22: an observation exactly equal to an interior edge e_j is counted in the
\* bin that ends at e_j (bin j-1) under closed-right, and in the bin that
\* starts at e_j (bin j) under closed-left.
C22_InteriorEdgeSide ==
    Built =>
        \A j \in InteriorEdges : \A i \in 0..(Len(xs) - 1) :
            xs[i + 1] = plan.edges[j + 1] =>
                IF EdgeRuleOf(cfg) = "closed-right"
                THEN CountedIn(i, InRangePos(j - 1))
                ELSE CountedIn(i, InRangePos(j))

\* the value of the record at 0-based index i: the accessor's result when an
\* accessor is supplied, the record itself otherwise
AccessorValueAt(i) ==
    LET d == cfg.data[i + 1]
    IN  IF cfg.x THEN XAccessor(d, i) ELSE IF d.num THEN d.val ELSE NaN

\* the 0-based indices whose accessor value and weight are both valid
AccessorKept ==
    {i \in 0..(Len(cfg.data) - 1) :
        /\ ~IsNull(AccessorValueAt(i)) /\ IsFinite(AccessorValueAt(i))
        /\ IsFinite(WeightAt(cfg, i)) /\ Gt(WeightAt(cfg, i), Zero)}

\* the n-th smallest element of a set of integers
NthOf(S, n) == CHOOSE i \in S : Cardinality({j \in S : j < i}) = n - 1

\* C23: the extracted values are the accessor's results x(record, i) when an
\* accessor is supplied, also for records that are numbers, and the records
\* themselves only when no accessor is supplied.
C23_AccessorDecidesValue ==
    Extracted =>
        xs = [n \in 1..Cardinality(AccessorKept) |-> AccessorValueAt(NthOf(AccessorKept, n))]

\* C24: the result's binWidth is edges[1] - edges[0], the spacing the
\* accumulator classifies with, and the width of every in-range bin other than
\* the last one.
C24_BinWidthIsActualWidth ==
    (Built /\ Len(plan.edges) >= 2) =>
        /\ result.binWidth = Sub(plan.edges[2], plan.edges[1])
        /\ \A q \in FirstInRangePos..(LastInRangePos - 1) :
              result.bins[q].width = result.binWidth

\* the tentative bin count of line 81, for the width the strategy chose
TentativeBinCount ==
    BinCountFor(Sub(dom.d1, dom.d0),
                PlanWidth(Sub(dom.d1, dom.d0), Len(xs), s.iqr, s.sd, cfg.binning))

\* the bin count the planner settled on: MAX_BINS when the tentative one
\* exceeded it (line 86), the tentative one otherwise
SettledBinCount ==
    IF Gt(TentativeBinCount, Num(MAX_BINS)) THEN Num(MAX_BINS) ELSE TentativeBinCount

\* C25: for every strategy the number of in-range bins emitted is at most
\* MAX_BINS, it is the bin count the planner settled on, and the bin-count
\* warning is emitted exactly when the tentative bin count exceeded MAX_BINS.
C25_BinCountCeiling ==
    Built =>
        /\ InRangeBinCount <= MAX_BINS
        /\ Num(InRangeBinCount) = SettledBinCount
        /\ InSeq(BinCountWarning, result.warnings) <=> Gt(TentativeBinCount, Num(MAX_BINS))

\* ------------------------------------------------------------------------
\* chooseBinWidth on its own: any range >= 0, any count and spread
\* ------------------------------------------------------------------------

\* ranges 0, 1, 3/2, Infinity, NaN; spreads 0, 1/2, 2, Infinity, NaN; no
\* strategy, or auto with no sub-rule or one of the three
WidthArgs ==
    {<<range, n, iqr, sd, strat>> :
        range \in {Zero, One, Rat(3, 2), PosInf, NaN},
        n \in {0, 1, 2, 5},
        iqr \in {Zero, Rat(1, 2), Num(2), PosInf, NaN},
        sd \in {Zero, Rat(1, 2), Num(2), PosInf, NaN},
        strat \in {NoBinning} \cup {AutoBinning(r) : r \in {"none", "fd", "scott", "sturges"}}}

InitWidth ==
    /\ unit \in {[fn |-> "chooseBinWidth", args |-> a, returned |-> FALSE, ret |-> <<>>]
                    : a \in WidthArgs}
    /\ cfg = Config(<<>>, FALSE, NoWeight, NoDomain, NoBinning, "none", NoOverflow, "none")
    /\ pc = "idle"
    /\ xs = <<>> /\ ws = <<>> /\ warnings = <<>>
    /\ s = NoSummary /\ dom = NoDom /\ plan = NoPlan /\ acc = NoAcc
    /\ result = NoResult

ChooseBinWidthCall ==
    /\ unit.fn = "chooseBinWidth"
    /\ ~unit.returned
    /\ unit' = [unit EXCEPT !.returned = TRUE,
                            !.ret = chooseBinWidth(unit.args[1], unit.args[2], unit.args[3],
                                                   unit.args[4], unit.args[5])]
    /\ UNCHANGED <<cfg, pc, xs, ws, warnings, s, dom, plan, acc, result>>

NextWidth == ChooseBinWidthCall

SpecWidth == InitWidth /\ [][NextWidth]_vars

WidthReturned == unit.fn = "chooseBinWidth" /\ unit.returned

\* the candidate widths of the call, in the order of its sub-rule
WidthRule == IF unit.args[5].mode = "auto" /\ unit.args[5].rule # "none" THEN unit.args[5].rule ELSE "fd"
WidthCount == IF unit.args[2] < 1 THEN 1 ELSE unit.args[2]
FdCandidate == Div(Mul(Num(2), unit.args[3]), Cbrt(WidthCount))
ScottCandidate == Div(Mul(Rat(7, 2), unit.args[4]), Cbrt(WidthCount))
SturgesCandidate == Div(unit.args[1], Num(IF CeilLog2(WidthCount) + 1 < 1 THEN 1 ELSE CeilLog2(WidthCount) + 1))
WidthCandidates ==
    IF WidthRule = "fd" THEN <<FdCandidate, ScottCandidate, SturgesCandidate>>
    ELSE IF WidthRule = "scott" THEN <<ScottCandidate, FdCandidate, SturgesCandidate>>
    ELSE <<SturgesCandidate>>
Qualifying == {i \in DOMAIN WidthCandidates : IsFinite(WidthCandidates[i]) /\ Gt(WidthCandidates[i], Zero)}
FirstQualifying == WidthCandidates[CHOOSE i \in Qualifying : \A j \in Qualifying : i <= j]

RequestedBinCount == IF Floor(cfg.binning.binCount) < 1 THEN 1 ELSE Floor(cfg.binning.binCount)

FixedCountWithinCeiling ==
    /\ cfg.binning.mode = "binCount"
    /\ IsFinite(cfg.binning.binCount)
    /\ RequestedBinCount <= MAX_BINS

\* C27: with binning {mode: 'binCount', binCount: c} and k = max(1, floor(c))
\* <= 10,000 the result has exactly k in-range bins, each of width
\* (d1 - d0) / k over the resolved domain, and no bin-count warning.
C27_FixedBinCount ==
    (Built /\ FixedCountWithinCeiling) =>
        /\ InRangeBinCount = RequestedBinCount
        /\ result.binWidth = Div(Sub(dom.d1, dom.d0), Num(RequestedBinCount))
        /\ \A q \in InRangePositions : result.bins[q].width = result.binWidth
        /\ ~InSeq(BinCountWarning, result.warnings)

\* the number k of intervals between the planner's edges
EdgeIntervals == Len(plan.edges) - 1

BinsEmitted == Built /\ result.bins # <<>>

\* C28: the emitted bins are k + (underflow ? 1 : 0) + (overflow ? 1 : 0) in
\* number, each with index equal to its position; the underflow bin, when
\* enabled, is first and spans [-Infinity, edges[0]], the overflow bin, when
\* enabled, is last and spans [edges[k], +Infinity], in-range bin j spans
\* [edges[j], edges[j+1]], and each bin ends where the next one starts.
C28_BinLayout ==
    BinsEmitted =>
        /\ Len(result.bins) = EdgeIntervals + (IF Flags.under THEN 1 ELSE 0)
                                            + (IF Flags.over THEN 1 ELSE 0)
        /\ \A q \in 1..Len(result.bins) : result.bins[q].index = q - 1
        /\ Flags.under => /\ result.bins[1].start = NegInf
                          /\ result.bins[1].end = plan.edges[1]
        /\ Flags.over => /\ result.bins[Len(result.bins)].start = plan.edges[EdgeIntervals + 1]
                         /\ result.bins[Len(result.bins)].end = PosInf
        /\ \A j \in 0..(EdgeIntervals - 1) :
              /\ result.bins[FirstInRangePos + j].start = plan.edges[j + 1]
              /\ result.bins[FirstInRangePos + j].end = plan.edges[j + 2]
        /\ \A q \in 1..(Len(result.bins) - 1) : result.bins[q].end = result.bins[q + 1].start

\* C28 witness: a result with underflow and overflow bins around at least
\* two in-range bins
C28_Witness ==
    /\ BinsEmitted
    /\ Flags.under /\ Flags.over
    /\ EdgeIntervals >= 2
    /\ Len(result.bins) = EdgeIntervals + 2

\* the quotient of the span by the width, as the planner computes it, is a
\* whole number: the in-range bins tile the domain with the same width
SpanIsWholeBins == Num(EdgeIntervals) = Div(Sub(dom.d1, dom.d0), plan.h)

WithinDomain(x) == Le(dom.d0, x) /\ Le(x, dom.d1)

\* C29: under closed-left with overflow capture disabled, an observation
\* equal to the resolved upper domain bound d1 is counted in no bin whenever
\* the bin width divides the span exactly; under closed-right (the default)
\* every observation with d0 <= x <= d1 is counted in exactly one in-range
\* bin, and in no other bin.
C29_UpperBoundByEdgeRule ==
    BinsEmitted =>
        \A i \in 0..(Len(xs) - 1) :
            /\ (EdgeRuleOf(cfg) = "closed-left" /\ ~Flags.over /\ SpanIsWholeBins
                    /\ xs[i + 1] = dom.d1)
                  => \A q \in 1..Len(result.bins) : ~CountedIn(i, q)
            /\ (EdgeRuleOf(cfg) = "closed-right" /\ WithinDomain(xs[i + 1]))
                  => /\ Cardinality({q \in InRangePositions : CountedIn(i, q)}) = 1
                     /\ \A q \in 1..Len(result.bins) : CountedIn(i, q) => q \in InRangePositions

\* ------------------------------------------------------------------------
\* The convenience function histogram() (src/histogram.ts, src/utils.ts,
\* src/algorithms.ts)
\* ------------------------------------------------------------------------

\* Math.ceil, as a number: NaN and +-Infinity are kept
CeilNum(a) == IF IsFinite(a) THEN Num(Ceil(a)) ELSE a

\* Math.sqrt, as a number
SqrtNum(a) == IF IsFinite(a) /\ Ge(a, Zero) THEN Sqrt(a) ELSE IF a = PosInf THEN PosInf ELSE NaN

\* mutant: only the type of the value is tested
NotFiniteNumberLax(v) == IsNull(v)

\* typeof v !== 'number' || !isFinite(v); a value that is no number is Null
NotFiniteNumber(v) == IsNull(v) \/ ~IsFinite(v)

\* the caller's accessor is d => d.value
extractValues(data, accessor) ==
    [i \in 1..Len(data) |->
        IF accessor THEN XAccessor(data[i], i - 1)
        ELSE IF data[i].num THEN data[i].val ELSE Null]

\* the caller's weightAccessor is (d, i) => table[i]
extractWeights(data, table) == [i \in 1..Len(data) |-> TableAccessor(table, data[i], i - 1)]

\* quantile of src/utils.ts
quantileOfSorted(sortedValues, p) ==
    LET index == Mul(p, Num(Len(sortedValues) - 1))
        lower == Floor(index)
        upper == Ceil(index)
        weight == Sub(index, Num(lower))
    IN  IF index[2] = 1 THEN sortedValues[index[1] + 1]
        ELSE Add(Mul(sortedValues[lower + 1], Sub(One, weight)),
                 Mul(sortedValues[upper + 1], weight))

\* for non-empty finite values; weighted is TRUE when weights are given
calculateStats(values, weighted, weights) ==
    LET n == Len(values)
        sortedValues == SortSeq(values, Lt)
        totalWeight == SumSeq(weights, 1, n)
        mean == IF weighted
                THEN Div(SumSeq([i \in 1..n |-> Mul(values[i], weights[i])], 1, n), totalWeight)
                ELSE Div(SumSeq(values, 1, n), Num(n))
        Sq(i) == Mul(Sub(values[i], mean), Sub(values[i], mean))
        variance == IF weighted
                    THEN Div(SumSeq([i \in 1..n |-> Mul(weights[i], Sq(i))], 1, n), totalWeight)
                    ELSE Div(SumSeq([i \in 1..n |-> Sq(i)], 1, n), Num(n))
        q1 == quantileOfSorted(sortedValues, Rat(1, 4))
        q3 == quantileOfSorted(sortedValues, Rat(3, 4))
    IN  [n |-> n, min |-> sortedValues[1], max |-> sortedValues[n], mean |-> mean,
         standardDeviation |-> SqrtNum(variance),
         q1 |-> q1, q2 |-> quantileOfSorted(sortedValues, Rat(1, 2)), q3 |-> q3,
         iqr |-> Sub(q3, q1)]

sturgesRule(n) == Num(CeilLog2(n) + 1)

scottRule(n, min, max, std) ==
    IF std = Zero THEN One
    ELSE CeilNum(Div(Sub(max, min), Div(Mul(Rat(7, 2), std), Cbrt(n))))

freedmanDiaconisRule(n, min, max, iqr) ==
    IF iqr = Zero THEN sturgesRule(n)
    ELSE CeilNum(Div(Sub(max, min), Div(Mul(Num(2), iqr), Cbrt(n))))

sqrtRule(n) == CeilNum(Sqrt(Num(n)))

calculateBinCount(algorithm, n, min, max, std, iqr) ==
    IF algorithm = "sturges" THEN sturgesRule(n)
    ELSE IF algorithm = "scott" THEN scottRule(n, min, max, std)
    ELSE IF algorithm = "fd" THEN freedmanDiaconisRule(n, min, max, iqr)
    ELSE sqrtRule(n)

\* if (x) on a number or undefined: 0, NaN and undefined are falsy
Truthy(a) == ~IsNull(a) /\ a # Zero /\ a # NaN

RECURSIVE WidthEdges(_, _, _, _)
\* the while loop of generateBinEdges, for binWidth > 0
WidthEdges(edge, limit, binWidth, edges) ==
    IF Le(edge, limit) THEN WidthEdges(Add(edge, binWidth), limit, binWidth, Append(edges, edge))
    ELSE edges

\* throw new Error('Bin count must be positive')
generateBinEdgesThrows(binCount, binWidth) == ~Truthy(binWidth) /\ Le(binCount, Zero)

generateBinEdges(min, max, binCount, binWidth) ==
    IF Truthy(binWidth)
    THEN WidthEdges(min, Add(max, Mul(binWidth, Rat(1, 1000))), binWidth, <<>>)
    ELSE IF min = max THEN <<Sub(min, Rat(1, 2)), Add(max, Rat(1, 2))>>
    ELSE IF ~IsFinite(binCount) THEN <<>>
    ELSE LET step == Div(Sub(max, min), binCount)
         IN  [i \in 1..(Floor(binCount) + 1) |-> Add(min, Mul(Num(i - 1), step))]

\* the 0-based index of the bin of value, or -1
findBinIndex(value, edges, edgeType, includeUnderflow) ==
    LET offset == IF includeUnderflow THEN 1 ELSE 0
        last == Len(edges) - 2
        Matches(i) ==
            LET left == edges[i + 1]
                right == edges[i + 2]
            IN  IF edgeType = "left"
                THEN (Ge(value, left) /\ Lt(value, right)) \/ (i = last /\ value = right)
                ELSE (Gt(value, left) /\ Le(value, right)) \/ (i = 0 /\ value = left)
        hits == {i \in 0..last : Matches(i)}
    IN  IF Len(edges) = 0 THEN -1
        ELSE IF Lt(value, edges[1]) THEN (IF includeUnderflow THEN 0 ELSE -1)
        ELSE IF Gt(value, edges[Len(edges)]) THEN -1
        ELSE IF hits = {} THEN -1
        ELSE (CHOOSE i \in hits : \A j \in hits : i <= j) + offset

createBins(values, edges, edgeType, weighted, weights, includeUnderflow, includeOverflow) ==
    LET numBins == IF Len(edges) = 0 THEN 0 ELSE Len(edges) - 1
        edge0 == IF Len(edges) = 0 THEN Null ELSE edges[1]
        edgeN == IF Len(edges) = 0 THEN Null ELSE edges[Len(edges)]
        ranges == (IF includeUnderflow THEN <<[x0 |-> NegInf, x1 |-> edge0]>> ELSE <<>>)
                    \o [i \in 1..numBins |-> [x0 |-> edges[i], x1 |-> edges[i + 1]]]
                    \o (IF includeOverflow THEN <<[x0 |-> edgeN, x1 |-> PosInf]>> ELSE <<>>)
        size == Len(ranges)
        InBin(b) == {i \in 1..Len(values) :
                        findBinIndex(values[i], edges, edgeType, includeUnderflow) = b}
        counts == [q \in 1..size |-> Num(Cardinality(InBin(q - 1)))]
        wsums == [q \in 1..size |->
                    SumSeq([i \in 1..Len(values) |->
                               IF i \in InBin(q - 1) THEN weights[i] ELSE Zero], 1, Len(values))]
        totalCount == Num(Len(values))
        Bin(q) ==
            LET binWidth == IF IsNull(ranges[q].x0) \/ IsNull(ranges[q].x1) THEN NaN
                            ELSE Sub(ranges[q].x1, ranges[q].x0)
                cumulativeCount == SumSeq(counts, 1, q)
            IN  [x0 |-> ranges[q].x0, x1 |-> ranges[q].x1,
                 count |-> counts[q],
                 percent |-> Mul(Div(counts[q], totalCount), Num(100)),
                 density |-> IF Gt(binWidth, Zero) THEN Div(counts[q], binWidth) ELSE Zero,
                 cumulativeCount |-> cumulativeCount,
                 cumulativePercent |-> Mul(Div(cumulativeCount, totalCount), Num(100)),
                 weight |-> IF weighted THEN wsums[q] ELSE Null,
                 cumulativeWeight |-> IF weighted THEN SumSeq(wsums, 1, q) ELSE Null]
    IN  [q \in 1..size |-> Bin(q)]

EmptyDataError == "Data array cannot be empty"
ValuesError == "All values must be finite numbers"
WeightsError == "All weights must be finite non-negative numbers"
RangeError == "Maximum value must be greater than minimum value"
BinsError == "Number of bins must be positive"
BinCountError == "Bin count must be positive"

\* a field of the configuration that the caller left out is Null; binning and
\* edges left out are "none"; weights left out is weighted = FALSE
HistogramConfig(bins, binWidth, binning, edges, min, max, underflow, overflow, accessor, weighted, table) ==
    [bins |-> bins, binWidth |-> binWidth, binning |-> binning, edges |-> edges,
     min |-> min, max |-> max, underflow |-> underflow, overflow |-> overflow,
     accessor |-> accessor, weighted |-> weighted, table |-> table]

NoStats == [n |-> 0, min |-> Null, max |-> Null, mean |-> Null, standardDeviation |-> Null,
            q1 |-> Null, q2 |-> Null, q3 |-> Null, iqr |-> Null]

\* the state of one call of Histogram.create: thrown error, or the values of
\* its locals
Thrown(error) ==
    [threw |-> TRUE, error |-> error, values |-> <<>>, weights |-> <<>>, stats |-> NoStats,
     min |-> Null, max |-> Null, binCount |-> Null, binWidth |-> Null,
     edges |-> <<>>, bins |-> <<>>]

\* Histogram.create, lines 68-70: the last check, and the locals of the call
createCounted(config, values, weights, stats, min, max, binCount) ==
    IF Le(binCount, Zero) THEN Thrown(BinsError)
    ELSE [threw |-> FALSE, error |-> "", values |-> values,
          weights |-> IF config.weighted THEN weights ELSE <<>>, stats |-> stats,
          min |-> min, max |-> max, binCount |-> binCount,
          binWidth |-> IF Truthy(config.binWidth) THEN config.binWidth ELSE Null,
          edges |-> <<>>, bins |-> <<>>]

\* Histogram.create, lines 52-66: the bin count
createBinCount(config, stats, min, max) ==
    IF Truthy(config.binWidth) THEN CeilNum(Div(Sub(max, min), config.binWidth))
    ELSE IF ~IsNull(config.bins) THEN config.bins
    ELSE calculateBinCount(IF config.binning = "none" THEN "sturges" ELSE config.binning,
                           stats.n, min, max, stats.standardDeviation, stats.iqr)

\* Histogram.create, lines 38-50: the range, widened when it is one point
createRanged(config, values, weights, stats, minValue, maxValue, padding) ==
    LET adjustedMinValue == IF minValue = maxValue THEN Sub(minValue, padding) ELSE minValue
        adjustedMaxValue == IF minValue = maxValue THEN Add(maxValue, padding) ELSE maxValue
    IN  IF Ge(adjustedMinValue, adjustedMaxValue) THEN Thrown(RangeError)
        ELSE createCounted(config, values, weights, stats, adjustedMinValue, adjustedMaxValue,
                           createBinCount(config, stats, adjustedMinValue, adjustedMaxValue))

\* Histogram.create, lines 34-43: config.min ?? stats.min, config.max ?? stats.max
createBounded(config, values, weights, stats, minValue) ==
    createRanged(config, values, weights, stats, minValue,
                 IF IsNull(config.max) THEN stats.max ELSE config.max,
                 OrElse(Mul(Abs(minValue), Rat(1, 10)), Rat(1, 2)))

\* Histogram.create, lines 13-31: validation, then the statistics
createValidated(data, config, values, weights, stats) ==
    IF Len(data) = 0 THEN Thrown(EmptyDataError)
    ELSE IF \E i \in 1..Len(values) : NotFiniteNumber(values[i]) THEN Thrown(ValuesError)
    ELSE IF config.weighted
            /\ \E i \in 1..Len(weights) : NotFiniteNumber(weights[i]) \/ Lt(weights[i], Zero)
    THEN Thrown(WeightsError)
    ELSE createBounded(config, values, weights, stats,
                       IF IsNull(config.min) THEN stats.min ELSE config.min)

\* the statistics of the values the call extracted
createStats(data, config, values, weights) ==
    createValidated(data, config, values, weights,
                    calculateStats(values, config.weighted, weights))

\* Histogram.create, lines 13-70: validation, statistics, range and bin count
createResolve(data, config) ==
    createStats(data, config, extractValues(data, config.accessor),
                extractWeights(data, config.table))

\* Histogram.create, lines 72-95: edges, bins and the resolved configuration
createBuild(config, r) ==
    IF generateBinEdgesThrows(r.binCount, r.binWidth) THEN Thrown(BinCountError)
    ELSE LET edges == generateBinEdges(r.min, r.max, r.binCount, r.binWidth)
             edgeType == IF config.edges = "none" THEN "left" ELSE config.edges
         IN  [threw |-> FALSE,
              bins |-> createBins(r.values, edges, edgeType, config.weighted, r.weights,
                                  config.underflow, config.overflow),
              stats |-> r.stats,
              config |-> [bins |-> r.binCount,
                          binning |-> IF config.binning = "none" THEN "sturges"
                                      ELSE config.binning,
                          edges |-> edgeType, min |-> r.min, max |-> r.max,
                          underflow |-> config.underflow, overflow |-> config.overflow,
                          binWidth |-> r.binWidth]]

\* inputs of histogram()

LegacyValues == {0, 1, 2, 4}
LegacyData == {Numbers(q) : q \in SeqsOver(LegacyValues)}

\* every way to fix the bins, every range, both edge types, over numeric data
LegacyGrid ==
    {<<d, HistogramConfig(b, w, "none", e, mn, mx, u, u, FALSE, FALSE, <<>>)>>
        : d \in LegacyData,
          b \in {Null, Num(2), Num(3)}, w \in {Null, Num(1), Num(3)},
          e \in {"left", "right"}, mn \in {Null, Num(0)}, mx \in {Null, Num(4)},
          u \in BOOLEAN}

\* the automatic rules, with and without weights
LegacyAuto ==
    {<<Numbers(q), HistogramConfig(Null, Null, a, "none", Null, Null, FALSE, FALSE, FALSE,
                                   wt # <<>>, wt)>>
        : q \in {<<3>>, <<1, 2>>, <<0, 1, 2, 4>>, <<1, 1, 2, 2, 2, 3>>},
          a \in {"none", "sturges", "scott", "fd", "sqrt"},
          wt \in {<<>>, <<1, 2, 1, 1, 1, 1>>, <<0, 0, 0, 0, 0, 0>>}}

\* the calls of the documentation and of the test suite, and invalid input
LegacyExamples ==
    {<<Numbers(<<-5, 1, 2, 3, 4, 5, 15>>),
       HistogramConfig(Num(5), Null, "none", e, Num(0), Num(10), TRUE, TRUE, FALSE, FALSE, <<>>)>>
        : e \in {"none", "right"}}
    \cup {<<Numbers(<<1, 1, 2, 2, 2, 3>>),
            HistogramConfig(Num(3), Null, "none", "none", Num(1), Num(3), FALSE, FALSE, FALSE,
                            FALSE, <<>>)>>,
          <<Numbers(<<1, 2, 3, 4>>),
            HistogramConfig(Num(2), Null, "none", "none", Num(1), Num(4), FALSE, FALSE, FALSE,
                            FALSE, <<>>)>>,
          <<<<RecordItem(Num(1)), RecordItem(Num(2)), RecordItem(Num(3))>>,
            HistogramConfig(Null, Null, "none", "none", Null, Null, FALSE, FALSE, TRUE,
                            FALSE, <<>>)>>}
    \cup {<<d, HistogramConfig(b, w, "none", "none", mn, Num(1), FALSE, FALSE, FALSE, wt # <<>>, wt)>>
            : d \in {<<>>, Numbers(<<1, 2, 3>>),
                     <<NumberItem(Num(1)), NumberItem(NaN)>>,
                     <<NumberItem(PosInf)>>, <<RecordItem(Num(1))>>},
              b \in {Null, Num(0), Num(-1)}, w \in {Null, Num(-1)},
              mn \in {Null, Num(5)}, wt \in {<<>>, <<1, -1, 1>>}}

LegacyCalls == LegacyGrid \cup LegacyAuto \cup LegacyExamples

InitLegacy ==
    /\ unit \in {[fn |-> "histogram", args |-> a, returned |-> FALSE, ret |-> <<>>]
                    : a \in LegacyCalls}
    /\ cfg = Config(<<>>, FALSE, NoWeight, NoDomain, NoBinning, "none", NoOverflow, "none")
    /\ pc = "idle"
    /\ xs = <<>> /\ ws = <<>> /\ warnings = <<>>
    /\ s = NoSummary /\ dom = NoDom /\ plan = NoPlan /\ acc = NoAcc
    /\ result = NoResult

\* lines 13-70: the call throws, or has its values, range and bin count
CreateResolve ==
    /\ unit.fn = "histogram"
    /\ pc = "idle"
    /\ LET r == createResolve(unit.args[1], unit.args[2])
       IN  /\ unit' = [unit EXCEPT !.returned = r.threw, !.ret = r]
           /\ pc' = IF r.threw THEN "threw" ELSE "resolved"
    /\ UNCHANGED <<cfg, xs, ws, warnings, s, dom, plan, acc, result>>

\* lines 72-95: the call returns its bins
CreateBuild ==
    /\ unit.fn = "histogram"
    /\ pc = "resolved"
    /\ LET r == createBuild(unit.args[2], unit.ret)
       IN  /\ unit' = [unit EXCEPT !.returned = TRUE, !.ret = r]
           /\ pc' = IF r.threw THEN "threw" ELSE "returned"
    /\ UNCHANGED <<cfg, xs, ws, warnings, s, dom, plan, acc, result>>

NextLegacy == CreateResolve \/ CreateBuild

SpecLegacy == InitLegacy /\ [][NextLegacy]_vars

\* ------------------------------------------------------------------------
\* Properties of histogram()
\* ------------------------------------------------------------------------

LegacyReturned == unit.fn = "histogram" /\ pc = "returned"

LegacyBins == unit.ret.bins
LegacyCounts == [q \in 1..Len(LegacyBins) |-> LegacyBins[q].count]
LegacyPercents == [q \in 1..Len(LegacyBins) |-> LegacyBins[q].percent]

\* the values the call extracted
LegacyInput == extractValues(unit.args[1], unit.args[2].accessor)

\* every value lies inside the binning range [min, max] of the result
LegacyAllInside ==
    \A i \in 1..Len(LegacyInput) :
        Ge(LegacyInput[i], unit.ret.config.min) /\ Le(LegacyInput[i], unit.ret.config.max)

\* C16: when every value lies inside the binning range, the counts of the bins
\* add up to n and the percents to 100, for fixed bin count, fixed bin width
\* and automatic binning and for both edge types.
C16_LegacyInRangeCounted ==
    (LegacyReturned /\ LegacyAllInside) =>
        /\ SumSeq(LegacyCounts, 1, Len(LegacyCounts)) = Num(Len(LegacyInput))
        /\ SumSeq(LegacyPercents, 1, Len(LegacyPercents)) = Num(100)

\* number of emitted bins that are neither the underflow nor the overflow bin
LegacyInRangeBins ==
    Len(LegacyBins) - (IF unit.ret.config.underflow THEN 1 ELSE 0)
                    - (IF unit.ret.config.overflow THEN 1 ELSE 0)

\* C17: with underflow and overflow both enabled, every value below min is
\* counted in the first bin and every value above max in the last bin, so the
\* counts of all bins add up to n.
C17_LegacyOutOfRangeCaptured ==
    (LegacyReturned /\ unit.ret.config.underflow /\ unit.ret.config.overflow) =>
        /\ LegacyBins[1].count
              = Num(Cardinality({i \in 1..Len(LegacyInput) :
                                    Lt(LegacyInput[i], unit.ret.config.min)}))
        /\ LegacyBins[Len(LegacyBins)].count
              = Num(Cardinality({i \in 1..Len(LegacyInput) :
                                    Gt(LegacyInput[i], unit.ret.config.max)}))
        /\ SumSeq(LegacyCounts, 1, Len(LegacyCounts)) = Num(Len(LegacyInput))

\* C18: the resolved config.bins is the number of in-range bins emitted, and
\* with a fixed bins: b that number is b, for fixed bin count, fixed bin width
\* and automatic binning.
C18_LegacyBinsResolved ==
    LegacyReturned =>
        /\ unit.ret.config.bins = Num(LegacyInRangeBins)
        /\ (~IsNull(unit.args[2].bins) /\ ~Truthy(unit.args[2].binWidth))
              => LegacyInRangeBins = unit.args[2].bins[1]

\* the call was made with an invalid value, or with valid values and weights
LegacyBadValue ==
    \E i \in 1..Len(LegacyInput) : IsNull(LegacyInput[i]) \/ ~IsFinite(LegacyInput[i])

LegacyBadWeight ==
    /\ unit.args[2].weighted
    /\ \E i \in 1..Len(unit.args[1]) :
          LET w == TableAccessor(unit.args[2].table, unit.args[1][i], i - 1)
          IN  IsNull(w) \/ ~IsFinite(w) \/ Lt(w, Zero)

\* the binning range of the call: the configured bound, or else the least
\* (greatest) value
LegacyMin ==
    IF ~IsNull(unit.args[2].min) THEN unit.args[2].min
    ELSE CHOOSE v \in {LegacyInput[i] : i \in 1..Len(LegacyInput)} :
            \A i \in 1..Len(LegacyInput) : Le(v, LegacyInput[i])

LegacyMax ==
    IF ~IsNull(unit.args[2].max) THEN unit.args[2].max
    ELSE CHOOSE v \in {LegacyInput[i] : i \in 1..Len(LegacyInput)} :
            \A i \in 1..Len(LegacyInput) : Ge(v, LegacyInput[i])

LegacyThrew(error) == pc = "threw" /\ unit.ret.threw /\ unit.ret.error = error

\* C19: histogram() throws and returns nothing for invalid input: an empty
\* data array, then a value that is not a finite number, then (with valid
\* weights) a range with min > max, then a bin count <= 0 each raise their own
\* error, and a call that threw has built no bin.
C19_LegacyRejectsInvalid ==
    (unit.fn = "histogram" /\ pc # "idle") =>
        /\ Len(unit.args[1]) = 0 => LegacyThrew(EmptyDataError)
        /\ (Len(unit.args[1]) > 0 /\ LegacyBadValue) => LegacyThrew(ValuesError)
        /\ (Len(unit.args[1]) > 0 /\ ~LegacyBadValue /\ ~LegacyBadWeight) =>
              /\ Gt(LegacyMin, LegacyMax) => LegacyThrew(RangeError)
              /\ (/\ ~Gt(LegacyMin, LegacyMax)
                  /\ ~Truthy(unit.args[2].binWidth)
                  /\ ~IsNull(unit.args[2].bins) /\ Le(unit.args[2].bins, Zero))
                    => LegacyThrew(BinsError)
        /\ pc = "threw" => unit.returned /\ unit.ret.bins = <<>>

\* C19 witness: valid data [1,2,3] with bins: 0 is rejected with the
\* bin-count error.
C19_Witness ==
    /\ unit.fn = "histogram" /\ LegacyThrew(BinsError)
    /\ unit.args[1] = Numbers(<<1, 2, 3>>)
    /\ unit.args[2].bins = Zero /\ IsNull(unit.args[2].binWidth)
    /\ unit.ret.bins = <<>>

\* ------------------------------------------------------------------------
\* The React hook useHistogram (src/react/histogram-view.tsx)
\* ------------------------------------------------------------------------

\* computeHistogram (src/core/engine.ts) as one call; NoResult stands for the
\* exception of the planner or the accumulator
HistogramBuilt(c, e, sm, d, p, a, f) ==
    IF a.threw THEN NoResult
    ELSE IF ~Gt(sm.totalWeight, Zero)
    THEN empty(e.warnings \o d.warnings \o p.binWarnings \o <<ZeroWeightWarning>>)
    ELSE [bins |-> buildBins(a.counts, a.items, p.edges, p.h, f.under, f.over,
                             sm.totalWeight, c.measure),
          domain |-> <<d.d0, d.d1>>,
          binWidth |-> p.h,
          stats |-> [n |-> Len(e.xs), totalWeight |-> sm.totalWeight, min |-> sm.min,
                     max |-> sm.max, mean |-> sm.mean, variance |-> sm.variance,
                     sd |-> sm.sd, iqr |-> sm.iqr],
          warnings |-> e.warnings \o d.warnings \o p.binWarnings]

HistogramPlanned(c, e, sm, d, p, f) ==
    IF p.threw THEN NoResult
    ELSE HistogramBuilt(c, e, sm, d, p,
                        accumulate(e.xs, e.ws, p.edges[1], p.h, p.edges, EdgeRuleOf(c),
                                   f.under, f.over), f)

HistogramResolved(c, e, sm, d) ==
    HistogramPlanned(c, e, sm, d,
                     computeBinningPlan(d.d0, d.d1, Len(e.xs), sm.iqr, sm.sd, c.binning),
                     resolveOverflowFlags(c.overflow))

HistogramExtracted(c, e, sm) == HistogramResolved(c, e, sm, resolveDomain(c.domain, sm.min, sm.max))

computeHistogram(c) ==
    IF Len(extractValuesAndWeights(c).xs) = 0 THEN empty(extractValuesAndWeights(c).warnings)
    ELSE HistogramExtracted(c, extractValuesAndWeights(c),
                            summarize(extractValuesAndWeights(c).xs, extractValuesAndWeights(c).ws))

\* JSON.stringify of a number: NaN and the infinities become null
JsonNumber(a) == IF IsFinite(a) THEN a ELSE Null

\* replacer, lines 166-170: a function becomes a label made of its name, and
\* the name of an arrow function written in the config literal is its key
FunctionLabel(key) == <<"function", key>>

\* JSON.stringify(config, replacer), as the value it denotes: undefined
\* fields are left out, which "absent" stands for
configSignature(c) ==
    [data |-> [i \in 1..Len(c.data) |->
                  IF c.data[i].num THEN JsonNumber(c.data[i].val)
                  ELSE [value |-> IF IsNull(c.data[i].val) THEN Null
                                  ELSE JsonNumber(c.data[i].val)]],
     x |-> IF c.x THEN FunctionLabel("x") ELSE <<"absent">>,
     weight |-> IF c.weight.kind = "none" THEN <<"absent">>
                ELSE IF c.weight.kind = "const" THEN <<"number", JsonNumber(c.weight.w)>>
                ELSE FunctionLabel("weight"),
     domain |-> IF c.domain.given THEN <<JsonNumber(c.domain.d0), JsonNumber(c.domain.d1)>>
                ELSE <<"absent">>,
     binning |-> [c.binning EXCEPT !.binWidth = JsonNumber(@), !.binCount = JsonNumber(@)],
     edgeRule |-> c.edgeRule,
     overflow |-> c.overflow,
     measure |-> c.measure]

\* the configs a parent renders the hook with: the weighted worked example
\* with each weight source, without weights, no data at all, a domain with
\* an upper bound that is not finite, and two bins under each edge rule
HookConfigs ==
    {Config(Numbers(<<1, 2, 3>>), FALSE, w, NoDomain, NoBinning, "none", NoOverflow, "none")
        : w \in {NoWeight, ConstWeight(Num(2)), FnWeight, TableWeight(<<1, 2, 1>>)}}
    \cup {Config(<<>>, FALSE, NoWeight, NoDomain, NoBinning, "none", NoOverflow, "none")}
    \cup {Config(Numbers(<<1, 2, 3>>), FALSE, NoWeight, dm, NoBinning, "none", NoOverflow, "none")
              : dm \in {Domain(Num(0), NaN), Domain(Num(0), PosInf), Domain(Num(0), Num(4))}}
    \cup {Config(Numbers(<<1, 2, 3>>), FALSE, NoWeight, NoDomain, CountBinning(Num(2)), e,
                 NoOverflow, "none")
              : e \in {"closed-left", "closed-right"}}

\* the hook after the first render (lines 215-228): config is the prop of the latest render,
\* cfgRef and state the ref and the state of the component, signature the
\* dependency of the effect, pending whether the effect of the latest render
\* has still to run, last the step that ran last
InitHook ==
    /\ unit \in {[fn |-> "useHistogram", config |-> c, cfgRef |-> c,
                  state |-> computeHistogram(c), signature |-> configSignature(c),
                  pending |-> TRUE, last |-> "render"] : c \in HookConfigs}
    /\ cfg = Config(<<>>, FALSE, NoWeight, NoDomain, NoBinning, "none", NoOverflow, "none")
    /\ pc = "idle"
    /\ xs = <<>> /\ ws = <<>> /\ warnings = <<>>
    /\ s = NoSummary /\ dom = NoDom /\ plan = NoPlan /\ acc = NoAcc
    /\ result = NoResult

\* a render with the config c, lines 215-236: the ref and the state are kept,
\* the signature is computed again, and the effect is scheduled when the
\* signature, its only dependency, changed
HookRender ==
    /\ unit.fn = "useHistogram"
    /\ ~unit.pending
    /\ \E c \in HookConfigs :
          unit' = [unit EXCEPT !.config = c,
                               !.signature = configSignature(c),
                               !.pending = (configSignature(c) # unit.signature),
                               !.last = "render"]
    /\ UNCHANGED <<cfg, pc, xs, ws, warnings, s, dom, plan, acc, result>>

\* the effect of lines 231-236
HookEffect ==
    /\ unit.fn = "useHistogram"
    /\ unit.pending
    /\ unit' = [unit EXCEPT !.cfgRef = unit.config,
                            !.state = computeHistogram(unit.config),
                            !.pending = FALSE,
                            !.last = "effect"]
    /\ UNCHANGED <<cfg, pc, xs, ws, warnings, s, dom, plan, acc, result>>

\* recompute(), lines 239-241
HookRecompute ==
    /\ unit.fn = "useHistogram"
    /\ ~unit.pending
    /\ unit' = [unit EXCEPT !.state = computeHistogram(unit.cfgRef),
                            !.last = "recompute"]
    /\ UNCHANGED <<cfg, pc, xs, ws, warnings, s, dom, plan, acc, result>>

NextHook == HookRender \/ HookEffect \/ HookRecompute

SpecHook == InitHook /\ [][NextHook]_vars

\* C30: in useHistogram the state set by recompute() is computeHistogram of
\* the most recently rendered config, after the effects of a render have run
\* the state is computeHistogram of that render's config, and once no effect
\* is pending the config in use is the rendered one, also when the rendered
\* config differs from the previous one without changing the JSON signature.
C30_HookUsesRenderedConfig ==
    unit.fn = "useHistogram" =>
        /\ unit.last \in {"effect", "recompute"} => unit.state = computeHistogram(unit.config)
        /\ ~unit.pending => unit.cfgRef = unit.config

====
